---- MODULE Spec2Model ----
(***************************************************************************)
(* A model of the balloon-flight application (index-refactored.ts and the  *)
(* systems it drives): the scene graph, the fog system with its registry   *)
(* of fogged materials, the mountain ring, the balloon load and the render *)
(* loop, plus the pure mesh-building and noise functions of the terrain    *)
(* generator.                                                              *)
(*                                                                         *)
(* Numbers are integers.  Colours produced by hslToRgb are exact rationals *)
(* held as integer triples in units of 1/600000.  Rotation matrices are    *)
(* held multiplied by 5, which represents exactly the axis-aligned poses   *)
(* and the 3-4-5 pose that createCamera's lookAt(0, 0, 20) from (0, 15, 0) *)
(* produces.                                                               *)
(***************************************************************************)
EXTENDS Integers, Sequences, FiniteSets, TLC

VARIABLES
  objects,            \* every Object3D created so far, by id (index)
  materials,          \* every Material created so far, by id (index)
  scene,              \* scene.children: sequence of object ids
  foggyMaterials,     \* FogSystem.foggyMaterials: sequence of material ids
  parameters,         \* FogSystem.parameters
  globalPlane,        \* FogSystem.globalPlane: [normal, constant]
  fogPlane,           \* FogSystem.fogPlane: <<x, y, z, w>>, x y z in fifths
  camera,             \* the camera's pose: [pos, rot]
  matrixWorldInverse, \* camera.matrixWorldInverse: [rot, trans]
  skyUniforms,        \* SkySystem.skyMaterial.uniforms (the fog part)
  distantMountains,   \* BalloonFlightApp.distantMountains: sequence of ids
  groundPlane,        \* BalloonFlightApp.groundPlane: object id, 0 for null
  sliders,            \* the value of each mountain slider element
  balloon,            \* BalloonSystem.balloon: object id, 0 for null
  isLoading,          \* BalloonSystem.isLoading
  loadsStarted,       \* number of OBJLoader.load calls issued
  loadsSettled,       \* number of those calls whose callback has run
  initPc,             \* where BalloonFlightApp.initialize stands
  errorReported,      \* loadBalloon's promise was rejected with the error
  animateStarted,     \* animate() has been called (the loop is scheduled)
  framesRendered,     \* renderer.render calls so far
  lastOp,             \* the operation that produced this state, with its input
  terrainMesh,        \* TerrainGenerator.terrainMesh: object id, 0 for undefined
  terrainGeometry,    \* the geometry createProceduralTerrain built last
  noiseCall,          \* the last call of a height-noise function, with its result
  nEvents,            \* events handled since construction (bounds the exploration)
  fragment,           \* the last evaluation of a fragment shader, with its result
  ui,                 \* a UIControls instance, the page's elements and the console
  experience,         \* ExperienceManager.state
  controls,           \* the FirstPersonControls (enabled)
  legacy,             \* the original index.ts given the same input events
  starCall,           \* the last computation of a star's opacity, with its result
  managerTerrain,     \* ExperienceManager.terrain: object id, 0 for null
  keysDown,           \* which of the keys E and Q are held down
  updateCall,         \* the last ExperienceManager.update call, with its result
  heightmaps          \* createTerrainFromHeightmap: the images still loading and
                      \* the vertices built from the last one loaded

appVars == <<objects, materials, scene, foggyMaterials, parameters, globalPlane,
             fogPlane, camera, matrixWorldInverse, skyUniforms, distantMountains,
             groundPlane, sliders, balloon, isLoading, loadsStarted, loadsSettled, initPc,
             errorReported, animateStarted, framesRendered, lastOp,
             terrainMesh, terrainGeometry, noiseCall, nEvents>>

generatorVars == <<terrainMesh, terrainGeometry, noiseCall>>

(* what the application's own operations and the generator's leave alone *)
auxVars == <<fragment, ui, experience, controls, legacy, starCall, managerTerrain,
             keysDown, updateCall, heightmaps>>

experienceVars == <<experience, controls, legacy, managerTerrain, keysDown>>

(* the application's state but lastOp and the generator's part *)
worldVars == <<objects, materials, scene, foggyMaterials, parameters, globalPlane,
               fogPlane, camera, matrixWorldInverse, skyUniforms, distantMountains,
               groundPlane, sliders, balloon, isLoading, loadsStarted, loadsSettled, initPc,
               errorReported, animateStarted, framesRendered, nEvents>>

-----------------------------------------------------------------------------
(* Bounds of the exploration *)

MaxEvents == 3
MaxInputs == 4
MaxGrid == 4
MaxCoord == 8
MaxDistance == 8
MaxCalls == 3

-----------------------------------------------------------------------------
(* Small helpers *)

Abs(x) == IF x < 0 THEN -x ELSE x

Max(a, b) == IF a > b THEN a ELSE b

Range(s) == {s[i] : i \in DOMAIN s}

Without(s, x) == SelectSeq(s, LAMBDA y : y # x)

Ids(n) == [i \in 1..n |-> i]

Occurrences(s, x) == Cardinality({i \in DOMAIN s : s[i] = x})

Dot3(a, b) == a[1] * b[1] + a[2] * b[2] + a[3] * b[3]

MatVec(m, v) == <<Dot3(m[1], v), Dot3(m[2], v), Dot3(m[3], v)>>

Transpose3(m) ==
  << <<m[1][1], m[2][1], m[3][1]>>,
     <<m[1][2], m[2][2], m[3][2]>>,
     <<m[1][3], m[2][3], m[3][3]>> >>

-----------------------------------------------------------------------------
(* AppConfig *)

FogDefaultDepth == 200
FogDefaultStartDistance == 45
FogDefaultEndDistance == 950
FogDefaultCloseHue == 294
FogDefaultDistantHue == 263
FogDefaultCloseBrightness == 33
FogDefaultDistantBrightness == 25
FogDefaultColorStartDistance == 0
FogDefaultColorEndDistance == 425
FogSaturation == 80
MountainsDefaultCount == 26
MountainsDefaultMaxHeight == 160
MountainsDefaultGroundDistance == 900
MountainsDefaultDistance == 900
MountainsDefaultMountainPosition == -40
StarsDefaultCount == 200
TerrainDefaultWidth == 64
TerrainDefaultDepth == 64
TerrainDefaultMaxHeight == 20
(* AppConfig's 0.15 rad, in the steps of pi/32 the sine table has: the     *)
(* nearest whole number of steps to 1.53                                   *)
TerrainDefaultNoiseScale == 2
CameraDefaultHeight == 15
HeightMin == 5
VerticalSpeed == 2
MaxElevation == 100
DebugDefaultHeight == -1000
FrameMillis == 16
MinSegments == 16
SkyRingDefaultHeight == 37
SkyRingDefaultFalloff == 50
SkyRingDefaultHue == 213
SkyRingDefaultBrightness == 44

-----------------------------------------------------------------------------
(* ColorUtils.hslToRgb: h in degrees, s and l in percent.  The result is   *)
(* <<r, g, b>> in units of 1/600000 (c = 60C, x = X, m = 30M below).       *)

hslToRgb(h, s, l) ==
  LET C == (100 - Abs(2 * l - 100)) * s
      X == C * (60 - Abs((h % 120) - 60))
      M == 200 * l - C
      c == 60 * C
      m == 30 * M
      rgb == IF h < 60 THEN <<c, X, 0>>
             ELSE IF h < 120 THEN <<X, c, 0>>
             ELSE IF h < 180 THEN <<0, c, X>>
             ELSE IF h < 240 THEN <<0, X, c>>
             ELSE IF h < 300 THEN <<X, 0, c>>
             ELSE <<c, 0, X>>
  IN  <<rgb[1] + m, rgb[2] + m, rgb[3] + m>>

(* new THREE.Color(colors.deepBlue): resources/colors is a named constant  *)
DeepBlue == <<"colors", "deepBlue">>

-----------------------------------------------------------------------------
(* Materials.  A material is a record; its uniforms field is <<>> until    *)
(* the renderer has compiled its shader and <<u>> afterwards, u being the  *)
(* shader.uniforms object that onBeforeCompile filled in.  version counts  *)
(* the needsUpdate = true assignments (THREE.Material bumps its version on *)
(* each).                                                                  *)

NoColor == "none"

PlainMaterial(type, color, side, transparent, opacity, vertexColors) ==
  [type |-> type, fogAware |-> FALSE, color |-> color, side |-> side,
   transparent |-> transparent, opacity |-> opacity, wireframe |-> FALSE,
   vertexColors |-> vertexColors, version |-> 0, disposed |-> FALSE,
   compiled |-> FALSE, uniforms |-> <<>>]

(* FogSystem.createFoggyMaterial: the material it returns *)
createFoggyMaterial(color, side) ==
  [type |-> "MeshStandardMaterial", fogAware |-> TRUE, color |-> color,
   side |-> side, transparent |-> FALSE, opacity |-> "1", wireframe |-> FALSE,
   vertexColors |-> FALSE, version |-> 1, disposed |-> FALSE,
   compiled |-> FALSE, uniforms |-> <<>>]

(* FogSystem.getFogColor *)
getFogColor(params) == hslToRgb(params.closeHue, FogSaturation, params.closeBrightness)

(* The uniforms the onBeforeCompile hook of a fogged material installs.    *)
(* fPlane holds a reference to the FogSystem's fogPlane vector.            *)
onBeforeCompileUniforms(params) ==
  [fPlane |-> "this.fogPlane",
   fDepth |-> params.depth,
   fColor |-> getFogColor(params),
   fColorDistant |-> DeepBlue,
   fStartDistance |-> params.startDistance,
   fEndDistance |-> params.endDistance,
   fColorStartDistance |-> params.colorStartDistance,
   fColorEndDistance |-> params.colorEndDistance]

(* A faulty variant of updateUniforms: the distant colour is not refreshed *)
updateUniformsButDistant(u, params) ==
  [u EXCEPT !.fDepth = params.depth,
            !.fStartDistance = params.startDistance,
            !.fEndDistance = params.endDistance,
            !.fColor = getFogColor(params),
            !.fColorStartDistance = params.colorStartDistance,
            !.fColorEndDistance = params.colorEndDistance]

(* The body of updateAllFoggyMaterials' forEach for one registry entry *)
updateUniforms(u, params) ==
  [u EXCEPT !.fDepth = params.depth,
            !.fStartDistance = params.startDistance,
            !.fEndDistance = params.endDistance,
            !.fColor = getFogColor(params),
            !.fColorDistant = hslToRgb(params.distantHue, FogSaturation,
                                       params.distantBrightness),
            !.fColorStartDistance = params.colorStartDistance,
            !.fColorEndDistance = params.colorEndDistance,
            !.fPlane = "this.fogPlane"]

updateEntry(mat, params) ==
  [mat EXCEPT !.uniforms = <<updateUniforms(mat.uniforms[1], params)>>,
              !.version = mat.version + 1]

(* A faulty variant of updateAllFoggyMaterials: every material that has    *)
(* uniforms is refreshed, registered or not                                *)
updateEveryCompiledMaterial(ms, registry, params) ==
  [m \in DOMAIN ms |->
     IF ms[m].fogAware /\ ms[m].uniforms # <<>> THEN updateEntry(ms[m], params)
     ELSE ms[m]]

(* FogSystem.updateAllFoggyMaterials: the forEach over the registry; a     *)
(* material is visited once for each entry that names it                   *)
updateAllFoggyMaterials(ms, registry, params) ==
  LET registered == Range(registry)
  IN  [m \in DOMAIN ms |->
         IF m \in registered
         THEN [updateEntry(ms[m], params) EXCEPT
                 !.version = ms[m].version + Occurrences(registry, m)]
         ELSE ms[m]]

(* { ...this.parameters, ...newParams } *)
MergeParameters(params, patch) ==
  [f \in DOMAIN params |-> IF f \in DOMAIN patch THEN patch[f] ELSE params[f]]

(* A faulty variant of updateGlobalPlane: the plane is left as it is *)
keepGlobalPlane(plane, patch) == plane

(* updateParameters' plane part: globalPlane.constant = newParams.height   *)
(* when the patch carries a height                                         *)
updateGlobalPlane(plane, patch) ==
  IF "height" \in DOMAIN patch THEN [plane EXCEPT !.constant = patch.height]
  ELSE plane

-----------------------------------------------------------------------------
(* The fog plane.  A pose is [pos, rot]; RotMatrix5 is five times the      *)
(* camera's rotation matrix.  matrixWorldInverse is [rot5, trans5]: the    *)
(* map v |-> (rot5 . v + trans5) / 5.                                      *)

RotMatrix5(rot) ==
  CASE rot = "identity"    -> << <<5, 0, 0>>, <<0, 5, 0>>, <<0, 0, 5>> >>
    [] rot = "lookAtStart" -> << <<-5, 0, 0>>, <<0, 4, 3>>, <<0, 3, -4>> >>
    [] rot = "yaw90"       -> << <<0, 0, 5>>, <<0, 5, 0>>, <<-5, 0, 0>> >>

Neg3(v) == <<-v[1], -v[2], -v[3]>>

(* Camera.updateMatrixWorld: matrixWorldInverse = inverse of the pose's    *)
(* world matrix (the inverse of a rotation is its transpose)               *)
InverseOfPose(pose) ==
  LET rt == Transpose3(RotMatrix5(pose.rot))
  IN  [rot5 |-> rt, trans5 |-> Neg3(MatVec(rt, pose.pos))]

(* Matrix3.getNormalMatrix: the transpose of the inverse of the upper 3x3  *)
getNormalMatrix5(m) == Transpose3(Transpose3(m.rot5))

(* Plane.coplanarPoint: normal * (-constant) *)
coplanarPoint(plane) ==
  <<plane.normal[1] * (0 - plane.constant),
    plane.normal[2] * (0 - plane.constant),
    plane.normal[3] * (0 - plane.constant)>>

(* FogSystem.updateFogPlane: globalPlane through Plane.applyMatrix4, then  *)
(* fogPlane.set(normal, constant).  The normal is kept in fifths (an       *)
(* orthonormal matrix leaves a unit normal normalised).                    *)
updateFogPlane(plane, m) ==
  LET cp == coplanarPoint(plane)
      ref5 == LET r == MatVec(m.rot5, cp)
              IN  <<r[1] + m.trans5[1], r[2] + m.trans5[2], r[3] + m.trans5[3]>>
      normal5 == MatVec(getNormalMatrix5(m), plane.normal)
  IN  <<normal5[1], normal5[2], normal5[3], (0 - Dot3(ref5, normal5)) \div 25>>

-----------------------------------------------------------------------------
(* The scene graph.  A world is [objects, materials, scene]; an object is  *)
(* [kind, tag, material, geomDisposed, children]: tag names the place that *)
(* created it, material is a material id (0: none).                        *)

Object(kind, tag, material, children) ==
  [kind |-> kind, tag |-> tag, material |-> material, geomDisposed |-> FALSE,
   children |-> children]

EmptyWorld == [objects |-> <<>>, materials |-> <<>>, scene |-> <<>>]

(* new THREE.Mesh/Line/Sprite(geometry, material), not added to the scene  *)
NewObject(w, kind, tag, mat) ==
  [w EXCEPT !.objects = Append(@, Object(kind, tag, Len(w.materials) + 1, <<>>)),
            !.materials = Append(@, mat)]

(* scene.add(object) *)
SceneAdd(w, id) == [w EXCEPT !.scene = Append(@, id)]

(* create an object and scene.add it *)
AddObject(w, kind, tag, mat) ==
  SceneAdd(NewObject(w, kind, tag, mat), Len(w.objects) + 1)

(* scene.add(new THREE.Light(...)) *)
AddLight(w) ==
  [w EXCEPT !.objects = Append(@, Object("Light", "light", 0, <<>>)),
            !.scene = Append(@, Len(w.objects) + 1)]

(* the materialFunction branch used at every terrain and mountain mesh:    *)
(* a fogged material with vertexColors = true                              *)
VertexColoredFoggy(color) ==
  [createFoggyMaterial(color, "DoubleSide") EXCEPT !.vertexColors = TRUE]

(* n meshes of one kind, each with its own material, each added to the    *)
(* scene: the body of a creation loop run n times                          *)
AddObjects(w, n, kind, tag, mat) ==
  [objects |-> w.objects \o
               [i \in 1..n |-> Object(kind, tag, Len(w.materials) + i, <<>>)],
   materials |-> w.materials \o [i \in 1..n |-> mat],
   scene |-> w.scene \o [i \in 1..n |-> Len(w.objects) + i]]

(* TerrainGenerator.createDistantMountains' segment loop *)
AddMountains(w, segments) ==
  AddObjects(w, segments, "Mesh", "mountain", VertexColoredFoggy("0x2d4a3e"))

(* A faulty variant of Segments: the floor of 16 is not enforced *)
SegmentsAsRequested(count) == count

Segments(count) == Max(count, MinSegments)

(* TerrainGenerator.createDistantMountains: the ground plane, then the     *)
(* segments; the ground plane is object Len(w.objects) + 1 and the         *)
(* mountains are the objects after it                                      *)
createDistantMountains(w, count) ==
  AddMountains(AddObject(w, "Mesh", "groundPlane",
                         createFoggyMaterial("0x1a3a2e", "DoubleSide")),
               Segments(count))

(* the ids createDistantMountains returns as { mountains, groundPlane }    *)
NewGroundPlane(w) == Len(w.objects) + 1

NewMountains(w, w2) == [i \in 1..(Len(w2.objects) - Len(w.objects) - 1) |->
                          Len(w.objects) + 1 + i]

(* StarSystem.createStars *)
createStars(w, n) ==
  AddObjects(w, n, "Mesh", "star",
             PlainMaterial("MeshBasicMaterial", "0xffffff", "FrontSide", TRUE,
                           "byHeight", FALSE))

(* scene.remove(object) *)
SceneRemove(w, id) == [w EXCEPT !.scene = Without(@, id)]

(* A faulty variant of RemoveAndDispose: nothing is disposed *)
RemoveWithoutDispose(w, id) == SceneRemove(w, id)

(* scene.remove(mesh); mesh.geometry.dispose(); mesh.material.dispose() *)
RemoveAndDispose(w, id) ==
  [SceneRemove(w, id) EXCEPT
     !.objects[id].geomDisposed = TRUE,
     !.materials[w.objects[id].material].disposed = TRUE]

RECURSIVE RemoveAndDisposeAll(_, _)
RemoveAndDisposeAll(w, ids) ==
  IF ids = <<>> THEN w
  ELSE RemoveAndDisposeAll(RemoveAndDispose(w, Head(ids)), Tail(ids))

(* The objects scene.traverse visits: the scene's children and theirs     *)
Descendants(objs, sc) ==
  Range(sc) \cup UNION {Range(objs[id].children) : id \in Range(sc)}

(* StarSystem.updateStarOpacity: scene.traverse visits every object below   *)
(* the scene; each mesh whose material is a white, transparent              *)
(* MeshBasicMaterial gets the opacity computed from its own height and      *)
(* needsUpdate = true, which advances the material's version.               *)
updateStarOpacity(w) ==
  LET visited == {id \in Descendants(w.objects, w.scene) :
                    /\ w.objects[id].kind = "Mesh"
                    /\ w.materials[w.objects[id].material].type = "MeshBasicMaterial"
                    /\ w.materials[w.objects[id].material].color = "0xffffff"
                    /\ w.materials[w.objects[id].material].transparent}
      updated == {w.objects[id].material : id \in visited}
  IN  [w EXCEPT !.materials =
         [m \in DOMAIN w.materials |->
            IF m \in updated
            THEN [w.materials[m] EXCEPT !.opacity = "byHeight", !.version = @ + 1]
            ELSE w.materials[m]]]

(* The renderer's first use of a material compiles its shader and calls    *)
(* material.onBeforeCompile once; a fogged material's hook installs the    *)
(* uniforms and pushes { material, uniforms } onto foggyMaterials.  drawn  *)
(* is the set of objects the frame draws; the renderer takes their         *)
(* materials in the order of their ids.  The result is                     *)
(* [materials, registry].                                                  *)
CompileAll(ms, registry, objs, drawn, params) ==
  LET fresh == {m \in {objs[id].material : id \in drawn} \ {0} : ~ms[m].compiled}
  IN  [materials |->
         [m \in DOMAIN ms |->
            IF m \notin fresh THEN ms[m]
            ELSE IF ms[m].fogAware
                 THEN [ms[m] EXCEPT !.compiled = TRUE,
                                    !.uniforms = <<onBeforeCompileUniforms(params)>>]
                 ELSE [ms[m] EXCEPT !.compiled = TRUE]],
       registry |->
         registry \o SelectSeq(Ids(Len(ms)), LAMBDA m : m \in fresh /\ ms[m].fogAware)]

(* What a frame draws: with view "all" everything, with view "near" (the   *)
(* ring outside the frustum) all but the mountains and their ground plane  *)
InView(obj, view) == view = "all" \/ obj.tag \notin {"mountain", "groundPlane"}

Drawn(objs, sc, view) == {id \in Descendants(objs, sc) : InView(objs[id], view)}

(* FogSystem.recreateAllFoggyMaterials' second loop: every Mesh whose      *)
(* material has an onBeforeCompile property gets a new fogged material.    *)
(* THREE.Material defines onBeforeCompile on every material.               *)
hasOnBeforeCompile(mat) == TRUE

(* A faulty variant of RecreatedMaterial: vertexColors is not carried over *)
RecreatedWithoutVertexColors(old) ==
  [createFoggyMaterial(IF old.color = NoColor THEN "0x808080" ELSE old.color,
                       old.side)
     EXCEPT !.transparent = old.transparent,
            !.opacity = old.opacity,
            !.wireframe = old.wireframe]

RecreatedMaterial(old) ==
  [createFoggyMaterial(IF old.color = NoColor THEN "0x808080" ELSE old.color,
                       old.side)
     EXCEPT !.transparent = old.transparent,
            !.opacity = old.opacity,
            !.wireframe = old.wireframe,
            !.vertexColors = old.vertexColors]

(* The position of x in the ascending sequence s, between lo and hi *)
RECURSIVE PositionIn(_, _, _, _)
PositionIn(s, x, lo, hi) ==
  LET mid == (lo + hi) \div 2
  IN  IF s[mid] = x THEN mid
      ELSE IF s[mid] < x THEN PositionIn(s, x, mid + 1, hi)
      ELSE PositionIn(s, x, lo, mid - 1)

recreateAllFoggyMaterials(w) ==
  LET visited == Descendants(w.objects, w.scene)
      meshes == SelectSeq(Ids(Len(w.objects)),
                          LAMBDA id : /\ id \in visited
                                      /\ w.objects[id].kind = "Mesh"
                                      /\ w.objects[id].material # 0
                                      /\ hasOnBeforeCompile(w.materials[w.objects[id].material]))
      replaced == Range(meshes)
  IN  [w EXCEPT
         !.materials = @ \o [k \in 1..Len(meshes) |->
                               RecreatedMaterial(w.materials[w.objects[meshes[k]].material])],
         !.objects = [id \in DOMAIN w.objects |->
                        IF id \in replaced
                        THEN [w.objects[id] EXCEPT
                                !.material = Len(w.materials)
                                             + PositionIn(meshes, id, 1, Len(meshes))]
                        ELSE w.objects[id]]]

(* BalloonFlightApp.recreateMountains on world w with the app's current    *)
(* ring; the result is [w, mountains, groundPlane]                         *)
recreateMountains(w, mountains, ground, count) ==
  LET w1 == RemoveAndDisposeAll(w, mountains)
      w2 == IF ground # 0 THEN RemoveAndDispose(w1, ground) ELSE w1
      w3 == createDistantMountains(w2, count)
  IN  [w |-> w3, mountains |-> NewMountains(w2, w3), groundPlane |-> NewGroundPlane(w2)]

(* SkySystem.updateFogUniforms *)
updateFogUniforms(params) ==
  [fogPlane |-> "fogSystem.fogPlane",
   fogDepth |-> params.depth,
   fogColor |-> hslToRgb(params.closeHue, 80, params.closeBrightness),
   fogColorDistant |-> hslToRgb(params.distantHue, 80, 50),
   fogStartDistance |-> params.startDistance,
   fogEndDistance |-> params.endDistance,
   fogColorStartDistance |-> params.colorStartDistance,
   fogColorEndDistance |-> params.colorEndDistance]

-----------------------------------------------------------------------------
(* TerrainGenerator.createProceduralTerrain: the buffers its two loops      *)
(* fill.  A vertex is the pair of loop counters it was pushed for; the      *)
(* index buffer is the flat list of vertex indices, three per triangle.     *)

(* for (x = 0; x < depth; x++) for (z = 0; z < width; z++) vertices.push    *)
TerrainVertices(width, depth) ==
  [k \in 1..(Max(depth, 0) * Max(width, 0)) |->
     [x |-> (k - 1) \div width, z |-> (k - 1) % width]]

(* The six indices pushed for the quad at (x, z): (a, b, d) and (d, c, a)   *)
QuadIndices(x, z, width) ==
  LET a == x + z * width
      b == x + 1 + z * width
      c == x + (z + 1) * width
      d == x + 1 + (z + 1) * width
  IN  <<a, b, d, d, c, a>>

(* A faulty variant of TerrainIndices: the grid is taken to be square *)
SquareTerrainIndices(width, depth) ==
  LET perRow == Max(depth - 1, 0)
  IN  [k \in 1..(6 * perRow * perRow) |->
         QuadIndices(((k - 1) \div 6) % perRow, ((k - 1) \div 6) \div perRow,
                     width)[((k - 1) % 6) + 1]]

(* A faulty variant of TerrainIndices: every grid gets at least one quad    *)
(* per row and one row                                                      *)
AtLeastOneQuadIndices(width, depth) ==
  LET perRow == Max(width - 1, 1)
      rows == Max(depth - 1, 1)
  IN  [k \in 1..(6 * perRow * rows) |->
         QuadIndices(((k - 1) \div 6) % perRow, ((k - 1) \div 6) \div perRow,
                     width)[((k - 1) % 6) + 1]]

(* for (z = 0; z < depth - 1; z++) for (x = 0; x < width - 1; x++) push     *)
TerrainIndices(width, depth) ==
  LET perRow == Max(width - 1, 0)
      rows == Max(depth - 1, 0)
  IN  [k \in 1..(6 * perRow * rows) |->
         QuadIndices(((k - 1) \div 6) % perRow, ((k - 1) \div 6) \div perRow,
                     width)[((k - 1) % 6) + 1]]

(* What is recorded of the geometry: the grid size asked for, the number    *)
(* of vertices of the position attribute and the length of the index        *)
ProceduralGeometry(width, depth) ==
  [width |-> width, depth |-> depth,
   vertexCount |-> Len(TerrainVertices(width, depth)),
   indexCount |-> Len(TerrainIndices(width, depth))]

(* createProceduralTerrain on world w: the mesh with the material the       *)
(* materialFunction (createFoggyMaterial) returns, vertexColors set, added  *)
(* to the scene.  A terrain mesh made earlier is not touched.               *)
createProceduralTerrain(w) ==
  AddObject(w, "Mesh", "terrain", VertexColoredFoggy("colors.deepBlue"))

(* TerrainGenerator.removeTerrain on world w *)
removeTerrain(w, mesh) == IF mesh # 0 THEN RemoveAndDispose(w, mesh) ELSE w

-----------------------------------------------------------------------------
(* The height-noise functions.  Angles are whole multiples of pi/32 and     *)
(* SinTable holds 10000 * sin(k * pi/32), rounded, for the first quarter    *)
(* turn.  A noise value is the fraction num/den.                            *)

SinTable ==
  <<0, 980, 1951, 2903, 3827, 4714, 5556, 6344, 7071, 7730, 8315, 8819, 9239,
    9569, 9808, 9952, 10000>>

One == SinTable[17]

Sin32(k) ==
  LET r == k % 64
  IN  IF r <= 16 THEN SinTable[r + 1]
      ELSE IF r <= 32 THEN SinTable[33 - r]
      ELSE IF r <= 48 THEN 0 - SinTable[r - 31]
      ELSE 0 - SinTable[65 - r]

Cos32(k) == Sin32(k + 16)

(* createProceduralTerrain's noise: sin(x * noiseScale) * cos(z *           *)
(* noiseScale) * 0.5 + 0.5, with noiseScale in units of pi/32 per step      *)
noise(x, z, noiseScale) ==
  [num |-> Sin32(x * noiseScale) * Cos32(z * noiseScale) + One * One,
   den |-> 2 * One * One]

(* createDistantMountains' mountainNoise.  x, offset and z are in units of  *)
(* 25 pi / 8, so that the factors 0.02, 0.1 and 0.05 turn them into 2, 10   *)
(* and 5 steps of pi/32.  The three terms are held multiplied by 10.        *)
mountainNoise(x, z, scale, offset) ==
  LET baseNoise == 5 * Sin32((x + offset) * 2 * scale) * Cos32(z * 2 * scale)
                   + 5 * One * One
      detailNoise == 3 * Sin32((x + offset) * 10 * scale) * Cos32(z * 10 * scale)
      peakNoise == 2 * Sin32((x + offset) * 5 * scale) * Cos32(z * 5 * scale)
  IN  [num |-> baseNoise + detailNoise + peakNoise, den |-> 15 * One * One]

(* A vertex height.  [base, dev] is the number (base + dev / One^2) / 2,    *)
(* which keeps noise * maxHeight within the integers of the checker.       *)
HeightAtLeast(h, m) == h.dev \div (One * One) >= 2 * m - h.base

HeightAtMost(h, m) ==
  LET q == h.dev \div (One * One)
  IN  q < 2 * m - h.base \/ (q = 2 * m - h.base /\ h.dev % (One * One) = 0)

(* A faulty variant of terrainHeight: the noise lacks its + 0.5 *)
terrainHeightAroundZero(x, z, maxHeight, noiseScale) ==
  [base |-> 0, dev |-> maxHeight * (noise(x, z, noiseScale).num - One * One)]

(* const height = noise(x, z) * maxHeight *)
terrainHeight(x, z, maxHeight, noiseScale) ==
  [base |-> maxHeight, dev |-> maxHeight * (noise(x, z, noiseScale).num - One * One)]

(* The y components of the position attribute, in the order the vertex     *)
(* loop pushes them                                                        *)
TerrainHeights(width, depth, maxHeight, noiseScale) ==
  [k \in 1..(Max(depth, 0) * Max(width, 0)) |->
     terrainHeight((k - 1) \div width, (k - 1) % width, maxHeight, noiseScale)]

(* geometry.computeBoundingBox(): the y range of the box, <<>> for the     *)
(* empty box of a geometry without vertices                                *)
BoundingBoxY(heights) ==
  IF heights = <<>> THEN <<>>
  ELSE LET base == heights[1].base
           devs == {heights[k].dev : k \in DOMAIN heights}
           negs == {0 - d : d \in devs}
           lo == CHOOSE d \in devs : \A e \in devs : d <= e
           hi == 0 - (CHOOSE d \in negs : \A e \in negs : d <= e)
       IN  <<[base |-> base, dev |-> lo], [base |-> base, dev |-> hi]>>

(* The geometry createProceduralTerrain builds for its options *)
TerrainGeometry(width, depth, maxHeight, noiseScale) ==
  ProceduralGeometry(width, depth) @@
  [maxHeight |-> maxHeight, noiseScale |-> noiseScale,
   boundingBoxY |-> BoundingBoxY(TerrainHeights(width, depth, maxHeight, noiseScale))]

(* calls counts the calls made with these arguments; previous is the       *)
(* result of the call before the last one                                  *)
NoNoiseCall ==
  [fn |-> "none", x |-> 0, z |-> 0, scale |-> 0, offset |-> 0, calls |-> 0,
   value |-> [num |-> 0, den |-> 1], previous |-> [num |-> 0, den |-> 1]]

-----------------------------------------------------------------------------
(* The fragment shaders.  A shader value is the fraction num/den with       *)
(* den > 0; distances are whole numbers.                                    *)

Zero == [num |-> 0, den |-> 1]

Less(a, b) == a.num * b.den < b.num * a.den

LessEq(a, b) == a.num * b.den <= b.num * a.den

Same(a, b) == a.num * b.den = b.num * a.den

MaxOf(a, b) == IF Less(a, b) THEN b ELSE a

(* GLSL smoothstep(edge0, edge1, x) for edge0 < edge1:                      *)
(* t = clamp((x - edge0) / (edge1 - edge0), 0, 1); t * t * (3 - 2 * t)      *)
smoothstep(edge0, edge1, x) ==
  LET d == edge1 - edge0
      n == IF x - edge0 < 0 THEN 0 ELSE IF x - edge0 > d THEN d ELSE x - edge0
  IN  [num |-> n * n * (3 * d - 2 * n), den |-> d * d * d]

(* A faulty variant of distanceFog: the fog stays full beyond the end       *)
(* distance                                                                 *)
distanceFogKeptBeyondEnd(viewDistance, fStartDistance, fEndDistance) ==
  IF viewDistance <= fStartDistance THEN Zero
  ELSE IF viewDistance >= fEndDistance THEN [num |-> 1, den |-> 1]
  ELSE smoothstep(fStartDistance, fEndDistance, viewDistance)

(* The distance fog of the fogged materials' fragment shader *)
distanceFog(viewDistance, fStartDistance, fEndDistance) ==
  IF viewDistance <= fStartDistance THEN Zero
  ELSE IF viewDistance >= fEndDistance THEN Zero
  ELSE smoothstep(fStartDistance, fEndDistance, viewDistance)

(* GLSL mix(x, y, a) = x * (1 - a) + y * a of two colours, kept as the     *)
(* blend itself unless a is 0 or 1                                          *)
mix(x, y, a) ==
  IF a.num = 0 THEN x
  ELSE IF a.num = a.den THEN y
  ELSE [x |-> x, y |-> y, a |-> a]

(* smoothstep(edge0, edge1, x) as a build computes it: GLSL leaves the      *)
(* result undefined for edge0 >= edge1, and undef is the value it takes     *)
(* then                                                                     *)
smoothstepOrUndefined(edge0, edge1, x, undef) ==
  IF edge0 < edge1 THEN smoothstep(edge0, edge1, x) ELSE undef

(* the fog term the sky shader computes for a fragment *)
skyTotalFog(fog, viewDistance, planeDistance, undef) ==
  MaxOf(distanceFog(viewDistance, fog.fogStartDistance, fog.fogEndDistance),
        smoothstepOrUndefined(0, -fog.fogDepth, planeDistance, undef))

(* A faulty variant of skyFragment: where there is fog the ring takes the   *)
(* fog colour                                                               *)
skyFragmentFogged(heightFactor, ring, fog, viewDistance, planeDistance, undef) ==
  LET ringFactor == smoothstep(ring.ringHeight - ring.ringFalloff, ring.ringHeight,
                               heightFactor)
      finalColor == mix(ring.ringColor, ring.skyColor, ringFactor)
      totalFog == skyTotalFog(fog, viewDistance, planeDistance, undef)
  IN  [color |-> IF totalFog.num > 0 THEN mix(fog.fogColor, ring.skyColor, ringFactor)
                 ELSE finalColor,
       alpha |-> 1]

(* main() of the sky material's fragment shader: gl_FragColor.  Heights of  *)
(* the ring and heightFactor = abs(vWorldNormal.y) are in hundredths.       *)
skyFragment(heightFactor, ring, fog, viewDistance, planeDistance, undef) ==
  LET ringFactor == smoothstep(ring.ringHeight - ring.ringFalloff, ring.ringHeight,
                               heightFactor)
      finalColor == mix(ring.ringColor, ring.skyColor, ringFactor)
      totalFog == skyTotalFog(fog, viewDistance, planeDistance, undef)
      colorBlendFactor == smoothstepOrUndefined(fog.fogColorStartDistance,
                                                fog.fogColorEndDistance,
                                                viewDistance, undef)
      fogColorBlended == mix(fog.fogColor, fog.fogColorDistant, colorBlendFactor)
  IN  [color |-> finalColor, alpha |-> 1]

NoFragment == [shader |-> "none"]

-----------------------------------------------------------------------------
(* UIControls.  A string is the sequence of its characters; the numbers     *)
(* passed are whole and not negative.  ui.elements are the elements of the  *)
(* document by id, each with its value, its textContent and its "input"     *)
(* listeners in the order they were added (a listener is the display it     *)
(* writes to); ui.sliders is the Map UIControls.sliders; ui.warnings counts *)
(* console.warn calls; ui.returned is what the last call returned and       *)
(* ui.threw whether it threw.  An optional precision is <<>> when           *)
(* undefined and <<p>> otherwise; a number returned is [number |-> n], NaN  *)
(* is [nan |-> TRUE].                                                       *)

Null == "null"

Undefined == [undefined |-> TRUE]

DigitChars == <<"0", "1", "2", "3", "4", "5", "6", "7", "8", "9">>

(* Number.prototype.toString *)
RECURSIVE toString(_)
toString(n) ==
  IF n < 10 THEN <<DigitChars[n + 1]>>
  ELSE Append(toString(n \div 10), DigitChars[(n % 10) + 1])

(* parseFloat of a string: the number its leading digits spell, NaN when    *)
(* it has none                                                              *)
RECURSIVE DigitsValue(_, _)
DigitsValue(str, acc) ==
  IF str = <<>> \/ str[1] \notin Range(DigitChars) THEN acc
  ELSE DigitsValue(Tail(str),
                   10 * acc + (CHOOSE d \in 0..9 : DigitChars[d + 1] = str[1]))

parseFloat(str) ==
  IF str = <<>> \/ str[1] \notin Range(DigitChars) THEN [nan |-> TRUE]
  ELSE [number |-> DigitsValue(str, 0)]

Element == [value |-> <<>>, textContent |-> <<>>, listeners |-> <<>>]

(* the elements setupUIControls' first four calls look up *)
FullPage ==
  {"rotation-slider", "rotation-value", "rotation-degrees",
   "star-min-size-slider", "star-min-size-value",
   "star-max-size-slider", "star-max-size-value",
   "fog-height-slider", "fog-height-value"}

(* new UIControls() on a document with the elements of page *)
UIControlsOn(page) ==
  [elements |-> [id \in page |-> Element], sliders |-> <<>>, warnings |-> 0,
   returned |-> Undefined, threw |-> FALSE, calls |-> 0]

(* document.getElementById *)
getElementById(u, id) == IF id \in DOMAIN u.elements THEN id ELSE Null

(* UIControls.updateDisplay: value.toFixed(precision) of a whole number     *)
(* appends a point and precision zeros                                      *)
updateDisplay(u, element, value, precision) ==
  [u EXCEPT !.elements[element].textContent =
              IF precision # <<>> /\ precision[1] > 0
              THEN toString(value) \o <<".">> \o [i \in 1..precision[1] |-> "0"]
              ELSE toString(value)]

(* UIControls.updateRotationDisplay: Math.round(value * 180 / Math.PI) with *)
(* 355/113 for pi                                                           *)
updateRotationDisplay(u, valueElement, degreesElement, value, precision) ==
  [updateDisplay(u, valueElement, value, precision)
     EXCEPT !.elements[degreesElement].textContent =
              toString((2 * value * 180 * 113 + 355) \div (2 * 355)) \o <<"deg">>]

(* A faulty variant of createSlider: the elements are used without being    *)
(* checked, and setting a property of null throws                           *)
createSliderUnchecked(u, config, callback) ==
  LET slider == getElementById(u, config.id)
      valueElement == getElementById(u, config.valueId)
  IN  IF slider = Null \/ valueElement = Null
      THEN [u EXCEPT !.threw = TRUE]
      ELSE LET u1 == [u EXCEPT !.elements[slider].value = toString(config.defaultValue)]
               u2 == updateDisplay(u1, valueElement, config.defaultValue, config.precision)
           IN  [u2 EXCEPT
                  !.sliders = (config.id :> [element |-> slider, valueElement |-> valueElement,
                                             callback |-> callback]) @@ @,
                  !.elements[slider].listeners =
                     Append(@, [kind |-> "slider", display |-> valueElement,
                                precision |-> config.precision]),
                  !.returned = Undefined]

(* UIControls.createSlider; callback tells whether one was passed.  The     *)
(* configurations passed leave min, max and step undefined.                 *)
createSlider(u, config, callback) ==
  LET slider == getElementById(u, config.id)
      valueElement == getElementById(u, config.valueId)
  IN  IF slider = Null \/ valueElement = Null
      THEN [u EXCEPT !.warnings = @ + 1, !.returned = Undefined]
      ELSE LET u1 == [u EXCEPT !.elements[slider].value = toString(config.defaultValue)]
               u2 == updateDisplay(u1, valueElement, config.defaultValue, config.precision)
           IN  [u2 EXCEPT
                  !.sliders = (config.id :> [element |-> slider, valueElement |-> valueElement,
                                             callback |-> callback]) @@ @,
                  !.elements[slider].listeners =
                     Append(@, [kind |-> "slider", display |-> valueElement,
                                precision |-> config.precision]),
                  !.returned = Undefined]

(* UIControls.createRotationSlider *)
createRotationSlider(u, config, callback) ==
  LET slider == getElementById(u, config.id)
      valueElement == getElementById(u, config.valueId)
      degreesElement == getElementById(u, "rotation-degrees")
  IN  IF slider = Null \/ valueElement = Null \/ degreesElement = Null
      THEN [u EXCEPT !.warnings = @ + 1, !.returned = Undefined]
      ELSE LET u1 == [u EXCEPT !.elements[slider].value = toString(config.defaultValue)]
               u2 == updateRotationDisplay(u1, valueElement, degreesElement,
                                           config.defaultValue, config.precision)
           IN  [u2 EXCEPT
                  !.sliders = (config.id :> [element |-> slider, valueElement |-> valueElement,
                                             callback |-> callback]) @@ @,
                  !.elements[slider].listeners =
                     Append(@, [kind |-> "rotation", display |-> valueElement,
                                precision |-> config.precision]),
                  !.returned = Undefined]

(* UIControls.createStarSizeSlider *)
createStarSizeSlider(u, minConfig, maxConfig) ==
  LET minSlider == getElementById(u, minConfig.id)
      minValueElement == getElementById(u, minConfig.valueId)
      maxSlider == getElementById(u, maxConfig.id)
      maxValueElement == getElementById(u, maxConfig.valueId)
  IN  IF minSlider = Null \/ minValueElement = Null
         \/ maxSlider = Null \/ maxValueElement = Null
      THEN [u EXCEPT !.warnings = @ + 1, !.returned = Undefined]
      ELSE LET u1 == [u EXCEPT !.elements[minSlider].value = toString(minConfig.defaultValue)]
               u2 == [u1 EXCEPT !.elements[maxSlider].value = toString(maxConfig.defaultValue)]
               u3 == updateDisplay(u2, minValueElement, minConfig.defaultValue,
                                   minConfig.precision)
               u4 == updateDisplay(u3, maxValueElement, maxConfig.defaultValue,
                                   maxConfig.precision)
               u5 == [u4 EXCEPT
                        !.sliders = (maxConfig.id :> [element |-> maxSlider,
                                                      valueElement |-> maxValueElement,
                                                      callback |-> FALSE])
                                    @@ (minConfig.id :> [element |-> minSlider,
                                                         valueElement |-> minValueElement,
                                                         callback |-> FALSE])
                                    @@ @]
               u6 == [u5 EXCEPT !.elements[minSlider].listeners =
                                   Append(@, [kind |-> "star", display |-> minValueElement,
                                              precision |-> <<>>])]
           IN  [u6 EXCEPT !.elements[maxSlider].listeners =
                             Append(@, [kind |-> "star", display |-> maxValueElement,
                                        precision |-> <<>>]),
                          !.returned = Undefined]

(* UIControls.updateSlider *)
updateSlider(u, id, value, precision) ==
  IF id \notin DOMAIN u.sliders
  THEN [u EXCEPT !.warnings = @ + 1, !.returned = Undefined]
  ELSE LET sliderData == u.sliders[id]
           u1 == [u EXCEPT !.elements[sliderData.element].value = toString(value)]
       IN  [updateDisplay(u1, sliderData.valueElement, value, precision)
              EXCEPT !.returned = Undefined]

(* UIControls.getSliderValue *)
getSliderValue(u, id) ==
  IF id \notin DOMAIN u.sliders
  THEN [u EXCEPT !.warnings = @ + 1, !.returned = [number |-> 0]]
  ELSE [u EXCEPT !.returned = parseFloat(u.elements[u.sliders[id].element].value)]

(* The "input" listeners of element id run in the order they were added,    *)
(* each writing the element's value to its display                          *)
RECURSIVE RunListeners(_, _, _)
RunListeners(u, listeners, value) ==
  IF listeners = <<>> THEN u
  ELSE LET l == Head(listeners)
       IN  RunListeners(IF l.kind = "rotation"
                        THEN updateRotationDisplay(u, l.display, "rotation-degrees",
                                                   value, l.precision)
                        ELSE updateDisplay(u, l.display, value, l.precision),
                        Tail(listeners), value)

-----------------------------------------------------------------------------
(* The state after new BalloonFlightApp(): the constructor and initialize  *)
(* up to its await of loadBalloon, whose load is in flight.                *)

ShaderMaterial == PlainMaterial("ShaderMaterial", NoColor, "BackSide", FALSE, "1", FALSE)

DefaultParameters ==
  [depth |-> FogDefaultDepth,
   startDistance |-> FogDefaultStartDistance,
   endDistance |-> FogDefaultEndDistance,
   closeHue |-> FogDefaultCloseHue,
   distantHue |-> FogDefaultDistantHue,
   closeBrightness |-> FogDefaultCloseBrightness,
   distantBrightness |-> FogDefaultDistantBrightness,
   colorStartDistance |-> FogDefaultColorStartDistance,
   colorEndDistance |-> FogDefaultColorEndDistance,
   height |-> FogDefaultDepth]

WorldBeforeMountains ==
  LET w1 == AddObject(EmptyWorld, "Mesh", "skySphere", ShaderMaterial)
      w2 == AddObject(w1, "Mesh", "backgroundSphere", ShaderMaterial)
  IN  createProceduralTerrain(w2)

WorldWithMountains == createDistantMountains(WorldBeforeMountains, MountainsDefaultCount)

InitialWorld ==
  LET w5 == createStars(WorldWithMountains, StarsDefaultCount)
      w6 == AddObject(w5, "Mesh", "cube",
                      [createFoggyMaterial("0x00ff00", "FrontSide") EXCEPT !.wireframe = TRUE])
      w7 == AddObject(w6, "Line", "horizonLine",
                      PlainMaterial("LineBasicMaterial", "0xffffff", "FrontSide", FALSE, "1", FALSE))
      w8 == AddObject(w7, "Mesh", "upMarker", createFoggyMaterial("0x00ff00", "FrontSide"))
      w9 == AddObject(w8, "Mesh", "downMarker", createFoggyMaterial("0xff0000", "FrontSide"))
      w10 == AddObject(w9, "Sprite", "upLabel",
                       PlainMaterial("SpriteMaterial", "0xffffff", "FrontSide", TRUE, "1", FALSE))
      w11 == AddObject(w10, "Sprite", "downLabel",
                       PlainMaterial("SpriteMaterial", "0xffffff", "FrontSide", TRUE, "1", FALSE))
      w12 == AddObject(w11, "Mesh", "sceneButton",
                       [createFoggyMaterial("0xff0000", "FrontSide") EXCEPT !.transparent = TRUE])
  IN  AddObject(w12, "Mesh", "buttonText",
                PlainMaterial("MeshBasicMaterial", "0xffffff", "FrontSide", TRUE, "0.9", FALSE))

MountainSliderIds ==
  {"mountain-count-slider", "mountain-distance-slider", "mountain-height-slider",
   "ground-distance-slider", "mountain-position-slider"}

InitialSliders ==
  [id \in MountainSliderIds |->
     CASE id = "mountain-count-slider" -> MountainsDefaultCount
       [] id = "mountain-distance-slider" -> MountainsDefaultDistance
       [] id = "mountain-height-slider" -> MountainsDefaultMaxHeight
       [] id = "ground-distance-slider" -> MountainsDefaultGroundDistance
       [] id = "mountain-position-slider" -> MountainsDefaultMountainPosition]

StartPose == [pos |-> <<0, CameraDefaultHeight, 0>>, rot |-> "lookAtStart"]

(* The opacity createStars and updateStarOpacity give a star at height      *)
(* starY for the fade offset fadeOffset: 1 unless starY < fadeStart, else   *)
(* Math.max(0, (starY - fadeEnd) / (fadeStart - fadeEnd)).  A division by   *)
(* zero (fadeOffset = 0, starY < 0) gives -Infinity, and the maximum 0.     *)
starOpacity(starY, fadeOffset) ==
  LET fadeStart == 0 + fadeOffset
      fadeEnd == 0 - fadeOffset
      n == starY - fadeEnd
      d == fadeStart - fadeEnd
  IN  IF ~(starY < fadeStart) THEN [num |-> 1, den |-> 1]
      ELSE IF d = 0 THEN Zero
      ELSE LET q == IF d < 0 THEN [num |-> -n, den |-> -d] ELSE [num |-> n, den |-> d]
           IN  MaxOf(Zero, q)

(* ExperienceManager's handlers on x = [state, controls, camera,            *)
(* matrixWorldInverse].  The panels, the overlay and the cursor are not     *)
(* part of the state.                                                       *)

(* the canvas' "mousedown" listener: startExperience when inactive.  The    *)
(* start button is only mentioned in a log message.                         *)
handleMouseDown(x) ==
  IF ~x.state.isActive
  THEN [x EXCEPT !.state.isActive = TRUE, !.controls.enabled = TRUE]
  ELSE x

(* ExperienceManager.resetExperience.  camera.lookAt first refreshes the    *)
(* camera's matrices (and so matrixWorldInverse) from the new position and  *)
(* the rotation it still has, then turns the camera.                        *)
resetExperience(x) ==
  [x EXCEPT !.state.isActive = FALSE,
            !.controls.enabled = FALSE,
            !.camera = StartPose,
            !.matrixWorldInverse = InverseOfPose([pos |-> StartPose.pos,
                                                  rot |-> x.camera.rot])]

(* ExperienceManager.togglePause *)
togglePause(x) ==
  [x EXCEPT !.state.isPaused = ~x.state.isPaused,
            !.controls.enabled = x.state.isPaused]

(* ExperienceManager.handleKeyDown *)
handleKeyDown(x, key) ==
  LET x1 == IF key = "Escape" /\ x.state.isActive THEN resetExperience(x) ELSE x
      x2 == IF key \in {"h", "H"}
            THEN [x1 EXCEPT !.state.debugUIVisible = ~x1.state.debugUIVisible]
            ELSE x1
      x3 == IF key = " " /\ x2.state.isActive THEN togglePause(x2) ELSE x2
  IN  IF x3.state.isActive /\ ~x3.state.isPaused
      THEN [x3 EXCEPT !.state.isAscending = IF key \in {"e", "E"} THEN TRUE ELSE @,
                      !.state.isDescending = IF key \in {"q", "Q"} THEN TRUE ELSE @]
      ELSE x3

(* ExperienceManager.handleKeyUp *)
handleKeyUp(x, key) ==
  IF x.state.isActive
  THEN [x EXCEPT !.state.isAscending = IF key \in {"e", "E"} THEN FALSE ELSE @,
                 !.state.isDescending = IF key \in {"q", "Q"} THEN FALSE ELSE @]
  ELSE x

(* ExperienceManager.checkTerrainCollision for a camera at height y, in     *)
(* thousandths.  ground is <<>> where the camera is beside the terrain      *)
(* patch, else <<h>> with the patch's height h under the camera: the ray    *)
(* cast straight down meets the patch when it starts at or above it.        *)
checkTerrainCollision(terrain, y, ground) ==
  IF terrain = 0 THEN DebugDefaultHeight * 1000
  ELSE IF ground # <<>> /\ y >= ground[1] THEN ground[1]
  ELSE DebugDefaultHeight * 1000

updateWithoutFloor(state, terrain, y, ground) ==
  IF state.isActive /\ ~state.isPaused
  THEN LET y1 == IF state.isAscending THEN y + VerticalSpeed * FrameMillis ELSE y
       IN  IF state.isDescending THEN y1 - VerticalSpeed * FrameMillis ELSE y1
  ELSE y

(* ExperienceManager.update(0.016): the camera height it leaves, in         *)
(* thousandths                                                              *)
update(state, terrain, y, ground) ==
  IF state.isActive /\ ~state.isPaused
  THEN LET verticalDelta == VerticalSpeed * FrameMillis
           maxAllowedHeight == checkTerrainCollision(terrain, y, ground)
                               + MaxElevation * 1000
           y1 == IF state.isAscending /\ y < maxAllowedHeight
                 THEN IF y + verticalDelta > maxAllowedHeight
                      THEN maxAllowedHeight
                      ELSE y + verticalDelta
                 ELSE y
           y2 == IF state.isDescending THEN y1 - verticalDelta ELSE y1
           requiredHeight == checkTerrainCollision(terrain, y2, ground) + HeightMin * 1000
       IN  IF y2 < requiredHeight THEN requiredHeight ELSE y2
  ELSE y

(* The original index.ts: its experience flags, its controls, its camera    *)
(* and which of its start button's two meshes are in its scene              *)
LegacyStart ==
  [isExperienceActive |-> FALSE, isPaused |-> FALSE, isAscending |-> FALSE,
   isDescending |-> FALSE, isDebugUIVisible |-> FALSE, controlsEnabled |-> FALSE,
   camera |-> StartPose, inScene |-> {"sceneButton", "buttonText"}]

(* index.ts' "mousedown" listener *)
legacyMouseDown(l) ==
  IF ~l.isExperienceActive
  THEN [l EXCEPT !.isExperienceActive = TRUE,
                 !.controlsEnabled = TRUE,
                 !.inScene = @ \ {"sceneButton", "buttonText"}]
  ELSE l

(* index.ts' "keydown" listener *)
legacyKeyDown(l, key) ==
  LET l1 == IF key = "Escape" /\ l.isExperienceActive
            THEN [l EXCEPT !.isExperienceActive = FALSE,
                           !.controlsEnabled = FALSE,
                           !.camera = StartPose,
                           !.inScene = @ \cup {"sceneButton", "buttonText"}]
            ELSE l
      l2 == IF key \in {"h", "H"}
            THEN [l1 EXCEPT !.isDebugUIVisible = ~l1.isDebugUIVisible]
            ELSE l1
      l3 == IF key = " " /\ l2.isExperienceActive
            THEN [l2 EXCEPT !.isPaused = ~l2.isPaused, !.controlsEnabled = l2.isPaused]
            ELSE l2
  IN  IF l3.isExperienceActive /\ ~l3.isPaused
      THEN [l3 EXCEPT !.isAscending = IF key \in {"e", "E"} THEN TRUE ELSE @,
                      !.isDescending = IF key \in {"q", "Q"} THEN TRUE ELSE @]
      ELSE l3

(* index.ts' "keyup" listener *)
legacyKeyUp(l, key) ==
  IF l.isExperienceActive
  THEN [l EXCEPT !.isAscending = IF key \in {"e", "E"} THEN FALSE ELSE @,
                 !.isDescending = IF key \in {"q", "Q"} THEN FALSE ELSE @]
  ELSE l

AppInit ==
  /\ objects = InitialWorld.objects
  /\ materials = InitialWorld.materials
  /\ scene = InitialWorld.scene
  /\ foggyMaterials = <<>>
  /\ parameters = DefaultParameters
  /\ globalPlane = [normal |-> <<0, -1, 0>>, constant |-> FogDefaultDepth]
  /\ fogPlane = <<0, 0, 0, 1>>
  /\ camera = StartPose
  /\ matrixWorldInverse = InverseOfPose([pos |-> StartPose.pos, rot |-> "identity"])
  /\ skyUniforms = [updateFogUniforms(DefaultParameters) EXCEPT !.fogPlane = "fogSystem.fogPlane"]
  /\ distantMountains = NewMountains(WorldBeforeMountains, WorldWithMountains)
  /\ groundPlane = NewGroundPlane(WorldBeforeMountains)
  /\ sliders = InitialSliders
  /\ balloon = 0
  /\ isLoading = TRUE
  /\ loadsStarted = 1
  /\ loadsSettled = 0
  /\ initPc = "awaitLoad"
  /\ errorReported = FALSE
  /\ animateStarted = FALSE
  /\ framesRendered = 0
  /\ lastOp = [op |-> "constructor"]
  /\ terrainMesh = Len(WorldBeforeMountains.objects)
  /\ terrainGeometry = TerrainGeometry(TerrainDefaultWidth, TerrainDefaultDepth,
                                       TerrainDefaultMaxHeight, TerrainDefaultNoiseScale)
  /\ noiseCall = NoNoiseCall
  /\ nEvents = 0
  /\ fragment = NoFragment
  /\ experience = [isActive |-> FALSE, isPaused |-> FALSE, isAscending |-> FALSE,
                   isDescending |-> FALSE, debugUIVisible |-> FALSE]
  /\ controls = [enabled |-> FALSE]
  /\ legacy = LegacyStart
  /\ starCall = [op |-> "none"]
  \* the constructor builds the ExperienceManager from this.terrain before
  \* initialize() calls createTerrain(): the field still holds null
  /\ managerTerrain = 0
  /\ keysDown = {}
  /\ updateCall = [op |-> "none"]
  /\ heightmaps = [pending |-> <<>>, vertices |-> <<>>]

-----------------------------------------------------------------------------
(* Inputs *)

OriginPose == [pos |-> <<0, 0, 0>>, rot |-> "identity"]

(* The frames explored: where the camera stands when the frame is drawn    *)
(* and what its frustum holds                                              *)
Shots ==
  {[pose |-> StartPose, view |-> "all"],
   [pose |-> StartPose, view |-> "near"],
   [pose |-> OriginPose, view |-> "all"]}

(* Partial<FogParameters> values: the single-field patches the sliders     *)
(* send, patches of several fields, and the empty patch                    *)
Patches ==
  {[height |-> 50],
   [depth |-> 90, closeHue |-> 330, closeBrightness |-> 20, distantHue |-> 90],
   <<>>}

SliderValues(id) ==
  CASE id = "mountain-count-slider" -> {5}
    [] id = "mountain-height-slider" -> {200}
    [] OTHER -> {}

-----------------------------------------------------------------------------
(* Operations *)

World == [objects |-> objects, materials |-> materials, scene |-> scene]

(* A faulty variant of animate: the fog plane is recomputed only while the  *)
(* experience is active and not paused                                      *)
animateFogPlaneWhenActive(pose, view, objs, sc) ==
  /\ camera' = pose
  /\ fogPlane' = IF experience.isActive /\ ~experience.isPaused
                 THEN updateFogPlane(globalPlane, matrixWorldInverse)
                 ELSE fogPlane
  /\ skyUniforms' = updateFogUniforms(parameters)
  /\ matrixWorldInverse' = InverseOfPose(pose)
  /\ LET r == CompileAll(materials, foggyMaterials, objs, Drawn(objs, sc, view), parameters)
     IN  /\ materials' = r.materials
         /\ foggyMaterials' = r.registry
  /\ framesRendered' = framesRendered + 1

(* One pass of animate() over the scene sc with objects objs: the camera   *)
(* ends the experience/controls update at pose; updateFogPlane reads the   *)
(* camera's matrixWorldInverse as the last render left it; the sky's fog   *)
(* uniforms are refreshed; renderer.render updates the camera's matrices   *)
(* and compiles the materials of what it draws.  Mesh positions and        *)
(* rotations (the balloon following the camera, the cube) are not part of  *)
(* the state.                                                              *)
animate(pose, view, objs, sc) ==
  /\ camera' = pose
  /\ fogPlane' = updateFogPlane(globalPlane, matrixWorldInverse)
  /\ skyUniforms' = updateFogUniforms(parameters)
  /\ matrixWorldInverse' = InverseOfPose(pose)
  /\ LET r == CompileAll(materials, foggyMaterials, objs, Drawn(objs, sc, view), parameters)
     IN  /\ materials' = r.materials
         /\ foggyMaterials' = r.registry
  /\ framesRendered' = framesRendered + 1

(* requestAnimationFrame fires: one frame of the loop *)
Frame(pose, view) ==
  /\ animateStarted
  /\ initPc = "done"
  /\ nEvents < MaxEvents
  /\ nEvents' = nEvents + 1
  /\ animate(pose, view, objects, scene)
  /\ lastOp' = [op |-> "animate"]
  /\ UNCHANGED generatorVars
  /\ UNCHANGED auxVars
  /\ UNCHANGED <<objects, scene, parameters, globalPlane, distantMountains, groundPlane,
                 sliders, balloon, isLoading, loadsStarted, loadsSettled, initPc, errorReported,
                 animateStarted>>

(* OBJLoader's success callback in loadBalloon: the balloon (a group with  *)
(* one mesh, given a new MeshStandardMaterial) is added to the scene,      *)
(* isLoading is cleared and the promise resolved                           *)
LoadSuccess ==
  /\ loadsSettled < loadsStarted
  /\ loadsSettled' = loadsSettled + 1
  /\ initPc # "resume"
  /\ LET part == Len(objects) + 1
         group == Len(objects) + 2
     IN  /\ objects' = objects \o
                       << Object("Mesh", "balloonPart", Len(materials) + 1, <<>>),
                          Object("Group", "balloon", 0, <<part>>) >>
         /\ materials' = Append(materials,
                                PlainMaterial("MeshStandardMaterial", "colors.steelPink",
                                              "DoubleSide", FALSE, "1", FALSE))
         /\ scene' = Append(scene, group)
         /\ balloon' = group
  /\ isLoading' = FALSE
  /\ initPc' = IF initPc = "awaitLoad" THEN "resume" ELSE initPc
  /\ lastOp' = [op |-> "loadSuccess"]
  /\ UNCHANGED generatorVars
  /\ UNCHANGED auxVars
  /\ UNCHANGED <<foggyMaterials, parameters, globalPlane, fogPlane, camera,
                 matrixWorldInverse, skyUniforms, distantMountains, groundPlane, sliders,
                 loadsStarted, errorReported, animateStarted, framesRendered,
                 nEvents>>

(* OBJLoader's error callback in loadBalloon: isLoading is cleared and the *)
(* promise rejected; initialize, awaiting it, ends there with the          *)
(* rejection                                                               *)
LoadError ==
  /\ loadsSettled < loadsStarted
  /\ loadsSettled' = loadsSettled + 1
  /\ initPc # "resume"
  /\ isLoading' = FALSE
  /\ errorReported' = TRUE
  /\ initPc' = IF initPc = "awaitLoad" THEN "rejected" ELSE initPc
  /\ lastOp' = [op |-> "loadError"]
  /\ UNCHANGED generatorVars
  /\ UNCHANGED auxVars
  /\ UNCHANGED <<objects, materials, scene, foggyMaterials, parameters, globalPlane,
                 fogPlane, camera, matrixWorldInverse, skyUniforms, distantMountains,
                 groundPlane, sliders, balloon, loadsStarted, animateStarted,
                 framesRendered, nEvents>>

(* initialize after its await: setupLighting, setupDebugUI,                *)
(* setupEventListeners, then animate(), whose first pass runs at once.     *)
(* It runs as the continuation of the resolved promise, before any other   *)
(* event.                                                                  *)
InitializeResume(pose, view) ==
  /\ initPc = "resume"
  /\ LET w == AddLight(AddLight(World))
     IN  /\ objects' = w.objects
         /\ scene' = w.scene
         /\ animate(pose, view, w.objects, w.scene)
  /\ animateStarted' = TRUE
  /\ initPc' = "done"
  /\ lastOp' = [op |-> "initialize"]
  /\ UNCHANGED generatorVars
  /\ UNCHANGED auxVars
  /\ UNCHANGED <<parameters, globalPlane, distantMountains, groundPlane, sliders,
                 balloon, isLoading, loadsStarted, loadsSettled, errorReported,
                 nEvents>>

(* FogSystem.updateParameters(newParams) *)
UpdateParameters(patch) ==
  /\ initPc # "resume"
  /\ nEvents < MaxEvents
  /\ nEvents' = nEvents + 1
  /\ LET merged == MergeParameters(parameters, patch)
     IN  /\ parameters' = merged
         /\ globalPlane' = updateGlobalPlane(globalPlane, patch)
         /\ materials' = updateAllFoggyMaterials(materials, foggyMaterials, merged)
  /\ lastOp' = [op |-> "updateParameters", patch |-> patch]
  /\ UNCHANGED generatorVars
  /\ UNCHANGED auxVars
  /\ UNCHANGED <<objects, scene, foggyMaterials, fogPlane, camera, matrixWorldInverse,
                 skyUniforms, distantMountains, groundPlane, sliders, balloon, isLoading,
                 loadsStarted, loadsSettled, initPc, errorReported, animateStarted, framesRendered>>

(* An input event of a mountain slider: the element takes the value and    *)
(* the listener calls recreateMountains, which reads the sliders           *)
MountainSliderInput(id, value) ==
  /\ initPc # "resume"
  /\ nEvents < MaxEvents
  /\ nEvents' = nEvents + 1
  /\ sliders' = [sliders EXCEPT ![id] = value]
  /\ LET r == recreateMountains(World, distantMountains, groundPlane,
                                sliders'["mountain-count-slider"])
     IN  /\ objects' = r.w.objects
         /\ materials' = r.w.materials
         /\ scene' = r.w.scene
         /\ distantMountains' = r.mountains
         /\ groundPlane' = r.groundPlane
  /\ lastOp' = [op |-> "recreateMountains"]
  /\ UNCHANGED generatorVars
  /\ UNCHANGED auxVars
  /\ UNCHANGED <<foggyMaterials, parameters, globalPlane, fogPlane, camera,
                 matrixWorldInverse, skyUniforms, balloon, isLoading, loadsStarted, loadsSettled,
                 initPc, errorReported, animateStarted, framesRendered>>

(* FogSystem.recreateAllFoggyMaterials() *)
RecreateAllFoggyMaterials ==
  /\ initPc # "resume"
  /\ nEvents < MaxEvents
  /\ nEvents' = nEvents + 1
  /\ foggyMaterials' = <<>>
  /\ LET w == recreateAllFoggyMaterials(World)
     IN  /\ objects' = w.objects
         /\ materials' = w.materials
  /\ lastOp' = [op |-> "recreateAllFoggyMaterials"]
  /\ UNCHANGED generatorVars
  /\ UNCHANGED auxVars
  /\ UNCHANGED <<scene, parameters, globalPlane, fogPlane, camera, matrixWorldInverse,
                 skyUniforms, distantMountains, groundPlane, sliders, balloon, isLoading,
                 loadsStarted, loadsSettled, initPc, errorReported, animateStarted, framesRendered>>

AppNext ==
  \/ \E shot \in Shots : Frame(shot.pose, shot.view)
  \/ LoadSuccess
  \/ LoadError
  \/ \E shot \in Shots : InitializeResume(shot.pose, shot.view)
  \/ \E patch \in Patches : UpdateParameters(patch)
  \/ \E id \in MountainSliderIds : \E value \in SliderValues(id) : MountainSliderInput(id, value)
  \/ RecreateAllFoggyMaterials

vars == <<appVars, auxVars>>

Init == AppInit /\ ui = UIControlsOn(FullPage)

Next == AppNext

Spec == Init /\ [][Next]_vars

-----------------------------------------------------------------------------
(* The terrain generator driven directly *)

GridSizes == 0..MaxGrid

MaxHeights == {7, TerrainDefaultMaxHeight}

TerrainNoiseScales == {TerrainDefaultNoiseScale, 3}

(* terrainGenerator.createProceduralTerrain({ width, depth, maxHeight,     *)
(* noiseScale })                                                           *)
CreateProceduralTerrain(width, depth, maxHeight, noiseScale) ==
  /\ nEvents < MaxEvents
  /\ nEvents' = nEvents + 1
  /\ LET w == createProceduralTerrain(World)
     IN  /\ objects' = w.objects
         /\ materials' = w.materials
         /\ scene' = w.scene
         /\ terrainMesh' = Len(w.objects)
  /\ terrainGeometry' = TerrainGeometry(width, depth, maxHeight, noiseScale)
  /\ lastOp' = [op |-> "createProceduralTerrain"]
  /\ UNCHANGED auxVars
  /\ UNCHANGED <<foggyMaterials, parameters, globalPlane, fogPlane, camera,
                 matrixWorldInverse, skyUniforms, distantMountains, groundPlane, sliders,
                 balloon, isLoading, loadsStarted, loadsSettled, initPc, errorReported, animateStarted,
                 framesRendered, noiseCall>>

(* terrainGenerator.removeTerrain() *)
RemoveTerrain ==
  /\ nEvents < MaxEvents
  /\ nEvents' = nEvents + 1
  /\ LET w == removeTerrain(World, terrainMesh)
     IN  /\ objects' = w.objects
         /\ materials' = w.materials
         /\ scene' = w.scene
  /\ terrainMesh' = 0
  /\ lastOp' = [op |-> "removeTerrain"]
  /\ UNCHANGED auxVars
  /\ UNCHANGED <<foggyMaterials, parameters, globalPlane, fogPlane, camera,
                 matrixWorldInverse, skyUniforms, distantMountains, groundPlane, sliders,
                 balloon, isLoading, loadsStarted, loadsSettled, initPc, errorReported, animateStarted,
                 framesRendered, terrainGeometry, noiseCall>>

TerrainNext ==
  \/ \E width \in GridSizes, depth \in GridSizes, maxHeight \in MaxHeights,
          noiseScale \in TerrainNoiseScales :
       CreateProceduralTerrain(width, depth, maxHeight, noiseScale)
  \/ RemoveTerrain

SpecTerrain == Init /\ [][TerrainNext]_vars

-----------------------------------------------------------------------------
(* The BalloonSystem called directly, while the application runs *)

(* A faulty variant of loadBalloon: no isLoading guard *)
loadBalloonUnguarded(b) ==
  [isLoading |-> TRUE, loadsStarted |-> b.loadsStarted + 1]

(* BalloonSystem.loadBalloon up to its OBJLoader.load call, on              *)
(* b = [isLoading, loadsStarted]                                            *)
loadBalloon(b) ==
  IF b.isLoading THEN b
  ELSE [isLoading |-> TRUE, loadsStarted |-> b.loadsStarted + 1]

(* BalloonSystem.removeBalloon: the scene it leaves *)
removeBalloon(sc, b) == IF b # 0 THEN Without(sc, b) ELSE sc

LoadBalloon ==
  /\ initPc # "resume"
  /\ loadsStarted < MaxCalls
  /\ LET b == loadBalloon([isLoading |-> isLoading, loadsStarted |-> loadsStarted])
     IN  /\ isLoading' = b.isLoading
         /\ loadsStarted' = b.loadsStarted
  /\ lastOp' = [op |-> "loadBalloon", wasLoading |-> isLoading]
  /\ UNCHANGED generatorVars
  /\ UNCHANGED auxVars
  /\ UNCHANGED <<objects, materials, scene, foggyMaterials, parameters, globalPlane,
                 fogPlane, camera, matrixWorldInverse, skyUniforms, distantMountains,
                 groundPlane, sliders, balloon, loadsSettled, initPc, errorReported,
                 animateStarted, framesRendered, nEvents>>

RemoveBalloon ==
  /\ initPc # "resume"
  /\ scene' = removeBalloon(scene, balloon)
  /\ balloon' = 0
  /\ lastOp' = [op |-> "removeBalloon"]
  /\ UNCHANGED generatorVars
  /\ UNCHANGED auxVars
  /\ UNCHANGED <<objects, materials, foggyMaterials, parameters, globalPlane,
                 fogPlane, camera, matrixWorldInverse, skyUniforms, distantMountains,
                 groundPlane, sliders, isLoading, loadsStarted, loadsSettled, initPc,
                 errorReported, animateStarted, framesRendered, nEvents>>

BalloonNext ==
  \/ LoadBalloon
  \/ RemoveBalloon
  \/ LoadSuccess
  \/ LoadError
  \/ InitializeResume(StartPose, "all")
  \/ Frame(StartPose, "all")

(* the loader calls back for every load it was given *)
SpecBalloon ==
  Init /\ [][BalloonNext]_vars /\ WF_vars(LoadSuccess \/ LoadError)

-----------------------------------------------------------------------------
(* The TerrainGenerator's three terrain methods.  An image is known by the  *)
(* width and depth of the call that loads it.                               *)

(* the index createTerrainFromHeightmap reads for the vertex (x, z) *)
pixelIndex(width, x, z) == (z * width + x) * 4

(* the length of ctx.getImageData(0, 0, width, depth).data *)
ImageDataLength(width, depth) == width * depth * 4

(* createTerrainFromHeightmap's vertex loop: x runs over the depth, z over  *)
(* the width.  imageData.data[i] is a number for i below the data's length  *)
(* and undefined beyond it, which makes the height NaN.                     *)
HeightmapVertices(width, depth) ==
  [k \in 1..(depth * width) |->
     LET x == (k - 1) \div width
         z == (k - 1) % width
         i == pixelIndex(width, x, z)
     IN  [x |-> x, z |-> z, pixelIndex |-> i,
          defined |-> i < ImageDataLength(width, depth)]]

(* img.onload in createTerrainFromHeightmap: the mesh it builds, with the   *)
(* material materialFunction(0x404040, DoubleSide) returns, vertexColors    *)
(* set, added to the scene.  A terrain mesh made earlier is not touched.    *)
createTerrainFromHeightmap(w) ==
  AddObject(w, "Mesh", "terrain", VertexColoredFoggy("0x404040"))

(* createTerrainFromHeightmap(url, { width, depth }) up to img.src = url *)
CreateTerrainFromHeightmap(width, depth) ==
  /\ nEvents < MaxEvents
  /\ nEvents' = nEvents + 1
  /\ Len(heightmaps.pending) < 2
  /\ heightmaps' = [heightmaps EXCEPT
                      !.pending = Append(@, [width |-> width, depth |-> depth])]
  /\ lastOp' = [op |-> "createTerrainFromHeightmap"]
  /\ UNCHANGED generatorVars
  /\ UNCHANGED <<fragment, ui, experienceVars, starCall, updateCall>>
  /\ UNCHANGED <<objects, materials, scene, foggyMaterials, parameters, globalPlane,
                 fogPlane, camera, matrixWorldInverse, skyUniforms, distantMountains,
                 groundPlane, sliders, balloon, isLoading, loadsStarted, loadsSettled,
                 initPc, errorReported, animateStarted, framesRendered>>

(* the image of the i-th pending call has loaded: img.onload *)
HeightmapLoaded(i) ==
  /\ i \in DOMAIN heightmaps.pending
  /\ LET w == createTerrainFromHeightmap(World)
         h == heightmaps.pending[i]
     IN  /\ objects' = w.objects
         /\ materials' = w.materials
         /\ scene' = w.scene
         /\ terrainMesh' = Len(w.objects)
         /\ heightmaps' = [pending |-> SubSeq(heightmaps.pending, 1, i - 1)
                                       \o SubSeq(heightmaps.pending, i + 1,
                                                 Len(heightmaps.pending)),
                           vertices |-> HeightmapVertices(h.width, h.depth)]
         /\ lastOp' = [op |-> "heightmapLoaded", width |-> h.width, depth |-> h.depth]
  /\ UNCHANGED <<fragment, ui, experienceVars, starCall, updateCall>>
  /\ UNCHANGED <<foggyMaterials, parameters, globalPlane, fogPlane, camera,
                 matrixWorldInverse, skyUniforms, distantMountains, groundPlane, sliders,
                 balloon, isLoading, loadsStarted, loadsSettled, initPc, errorReported,
                 animateStarted, framesRendered, terrainGeometry, noiseCall, nEvents>>

(* the image of the i-th pending call could not be loaded: img.onerror      *)
(* rejects the promise                                                      *)
HeightmapFailed(i) ==
  /\ i \in DOMAIN heightmaps.pending
  /\ heightmaps' = [heightmaps EXCEPT
                      !.pending = SubSeq(@, 1, i - 1) \o SubSeq(@, i + 1, Len(@))]
  /\ lastOp' = [op |-> "heightmapError"]
  /\ UNCHANGED generatorVars
  /\ UNCHANGED <<fragment, ui, experienceVars, starCall, updateCall>>
  /\ UNCHANGED worldVars

(* the procedural terrain is rebuilt with the arguments createTerrain gives *)
HeightmapNext ==
  \/ \E width \in 1..MaxGrid, depth \in 1..MaxGrid :
       CreateTerrainFromHeightmap(width, depth)
  \/ \E i \in 1..2 : HeightmapLoaded(i)
  \/ \E i \in 1..2 : HeightmapFailed(i)
  \/ CreateProceduralTerrain(TerrainDefaultWidth, TerrainDefaultDepth,
                             TerrainDefaultMaxHeight, TerrainDefaultNoiseScale)
  \/ RemoveTerrain

SpecHeightmap == Init /\ [][HeightmapNext]_vars

-----------------------------------------------------------------------------
(* The noise functions called directly *)

Coords == 0..MaxCoord

NoiseScales == {1, 2, 3}

Offsets == {0, 4}

(* noise(x, z) of a terrain built with the given noiseScale *)
CallNoise(x, z, noiseScale) ==
  /\ noiseCall.calls = 0
  /\ noiseCall' = [NoNoiseCall EXCEPT !.fn = "noise", !.x = x, !.z = z,
                                      !.scale = noiseScale, !.calls = 1,
                                      !.value = noise(x, z, noiseScale)]
  /\ lastOp' = [op |-> "noise"]
  /\ UNCHANGED auxVars
  /\ UNCHANGED <<objects, materials, scene, foggyMaterials, parameters, globalPlane,
                 fogPlane, camera, matrixWorldInverse, skyUniforms, distantMountains,
                 groundPlane, sliders, balloon, isLoading, loadsStarted, loadsSettled, initPc,
                 errorReported, animateStarted, framesRendered, terrainMesh,
                 terrainGeometry, nEvents>>

(* mountainNoise(x, z, scale, offset) *)
CallMountainNoise(x, z, scale, offset) ==
  /\ noiseCall.calls = 0
  /\ noiseCall' = [NoNoiseCall EXCEPT !.fn = "mountainNoise", !.x = x, !.z = z,
                                      !.scale = scale, !.offset = offset, !.calls = 1,
                                      !.value = mountainNoise(x, z, scale, offset)]
  /\ lastOp' = [op |-> "mountainNoise"]
  /\ UNCHANGED auxVars
  /\ UNCHANGED <<objects, materials, scene, foggyMaterials, parameters, globalPlane,
                 fogPlane, camera, matrixWorldInverse, skyUniforms, distantMountains,
                 groundPlane, sliders, balloon, isLoading, loadsStarted, loadsSettled, initPc,
                 errorReported, animateStarted, framesRendered, terrainMesh,
                 terrainGeometry, nEvents>>

(* The same function called once more with the same arguments *)
CallAgain ==
  /\ noiseCall.calls = 1
  /\ noiseCall' = [noiseCall EXCEPT
                     !.calls = 2,
                     !.previous = noiseCall.value,
                     !.value = IF noiseCall.fn = "noise"
                               THEN noise(noiseCall.x, noiseCall.z, noiseCall.scale)
                               ELSE mountainNoise(noiseCall.x, noiseCall.z, noiseCall.scale,
                                                  noiseCall.offset)]
  /\ lastOp' = [op |-> "callAgain"]
  /\ UNCHANGED auxVars
  /\ UNCHANGED <<objects, materials, scene, foggyMaterials, parameters, globalPlane,
                 fogPlane, camera, matrixWorldInverse, skyUniforms, distantMountains,
                 groundPlane, sliders, balloon, isLoading, loadsStarted, loadsSettled, initPc,
                 errorReported, animateStarted, framesRendered, terrainMesh,
                 terrainGeometry, nEvents>>

NoiseNext ==
  \/ \E x \in Coords, z \in Coords, noiseScale \in NoiseScales : CallNoise(x, z, noiseScale)
  \/ \E x \in Coords, z \in Coords, scale \in NoiseScales, offset \in Offsets :
       CallMountainNoise(x, z, scale, offset)
  \/ CallAgain

SpecNoise == Init /\ [][NoiseNext]_vars

-----------------------------------------------------------------------------
(* The fragment shaders run on one fragment *)

Distances == 0..MaxDistance

(* The fogged materials' shader up to its distance fog, for a fragment at   *)
(* viewDistance = length(vViewPosition)                                     *)
ShadeFoggy(viewDistance, fStartDistance, fEndDistance) ==
  /\ fragment' = [shader |-> "foggy", viewDistance |-> viewDistance,
                  fStartDistance |-> fStartDistance, fEndDistance |-> fEndDistance,
                  distanceFog |-> distanceFog(viewDistance, fStartDistance, fEndDistance)]
  /\ lastOp' = [op |-> "shadeFoggy"]
  /\ UNCHANGED <<worldVars, generatorVars, ui, experienceVars, starCall, updateCall,
                 heightmaps>>

(* the ring uniforms createSkyMaterial sets, and those of a narrow ring *)
RingSamples ==
  {[ringHeight |-> SkyRingDefaultHeight, ringFalloff |-> SkyRingDefaultFalloff,
    ringColor |-> hslToRgb(SkyRingDefaultHue, 80, SkyRingDefaultBrightness),
    skyColor |-> DeepBlue],
   [ringHeight |-> 20, ringFalloff |-> 10,
    ringColor |-> hslToRgb(30, 80, 60), skyColor |-> DeepBlue]}

(* fog uniforms of the sky material: those of the default parameters, of a  *)
(* fog that starts and ends near the camera, and of a fog of negative depth *)
FogSamples ==
  {updateFogUniforms(DefaultParameters),
   updateFogUniforms([DefaultParameters EXCEPT !.startDistance = 2, !.endDistance = 6,
                                               !.closeHue = 10, !.distantHue = 100,
                                               !.colorStartDistance = 1,
                                               !.colorEndDistance = 5]),
   updateFogUniforms([DefaultParameters EXCEPT !.depth = -4, !.closeBrightness = 70])}

(* what a smoothstep with edge0 >= edge1 may evaluate to *)
UndefinedValues == {Zero, [num |-> 1, den |-> 2]}

(* The sky material's fragment shader on one fragment of the sky sphere,    *)
(* with heightFactor = abs(vWorldNormal.y) in hundredths and planeDistance  *)
(* = dot(vViewPosition, fogPlane.xyz) - fogPlane.w                          *)
ShadeSky(heightFactor, ring, fog, viewDistance, planeDistance, undef) ==
  /\ LET out == skyFragment(heightFactor, ring, fog, viewDistance, planeDistance, undef)
     IN  fragment' = [shader |-> "sky", heightFactor |-> heightFactor, ring |-> ring,
                      fog |-> fog, viewDistance |-> viewDistance,
                      planeDistance |-> planeDistance, undef |-> undef,
                      color |-> out.color, alpha |-> out.alpha]
  /\ lastOp' = [op |-> "shadeSky"]
  /\ UNCHANGED <<worldVars, generatorVars, ui, experienceVars, starCall, updateCall,
                 heightmaps>>

ShaderNext ==
  \/ \E viewDistance \in Distances, fStartDistance \in {0, 2, 5},
          fEndDistance \in {2, 6, MaxDistance} :
       ShadeFoggy(viewDistance, fStartDistance, fEndDistance)
  \/ \E heightFactor \in {0, 30, 100}, ring \in RingSamples, fog \in FogSamples,
          viewDistance \in {3, MaxDistance}, planeDistance \in {-3, 2},
          undef \in UndefinedValues :
       ShadeSky(heightFactor, ring, fog, viewDistance, planeDistance, undef)

SpecShader == Init /\ [][ShaderNext]_vars

-----------------------------------------------------------------------------
(* A UIControls instance on a page that may lack elements *)

(* the configurations setupUIControls passes for four of its sliders *)
SliderConfigs ==
  [rotation |-> [id |-> "rotation-slider", valueId |-> "rotation-value",
                 defaultValue |-> 0, precision |-> <<1>>],
   starMin |-> [id |-> "star-min-size-slider", valueId |-> "star-min-size-value",
                defaultValue |-> 15, precision |-> <<>>],
   starMax |-> [id |-> "star-max-size-slider", valueId |-> "star-max-size-value",
                defaultValue |-> 25, precision |-> <<>>],
   fogHeight |-> [id |-> "fog-height-slider", valueId |-> "fog-height-value",
                  defaultValue |-> FogDefaultDepth, precision |-> <<>>]]

Pages ==
  {FullPage,
   FullPage \ {"fog-height-value", "rotation-degrees", "star-max-size-slider"},
   FullPage \ {"fog-height-slider", "rotation-value", "star-min-size-value"},
   {}}

SlidersInit == AppInit /\ ui \in {UIControlsOn(page) : page \in Pages}

UICall(op, u) ==
  /\ ui.calls < MaxCalls
  /\ ui' = [u EXCEPT !.calls = ui.calls + 1]
  /\ lastOp' = op
  /\ UNCHANGED <<worldVars, generatorVars, fragment, experienceVars, starCall,
                 updateCall, heightmaps>>

CreateSlider(callback) ==
  UICall([op |-> "createSlider", id |-> SliderConfigs.fogHeight.id],
         createSlider(ui, SliderConfigs.fogHeight, callback))

CreateRotationSlider ==
  UICall([op |-> "createRotationSlider", id |-> SliderConfigs.rotation.id],
         createRotationSlider(ui, SliderConfigs.rotation, TRUE))

CreateStarSizeSlider ==
  UICall([op |-> "createStarSizeSlider", id |-> SliderConfigs.starMax.id],
         createStarSizeSlider(ui, SliderConfigs.starMin, SliderConfigs.starMax))

UpdateSlider(id, value) ==
  UICall([op |-> "updateSlider", id |-> id], updateSlider(ui, id, value, <<>>))

GetSliderValue(id) ==
  UICall([op |-> "getSliderValue", id |-> id], getSliderValue(ui, id))

(* The user moves the slider element id to value: the browser sets the      *)
(* element's value and dispatches "input" to its listeners                  *)
SliderInput(id, value) ==
  /\ id \in DOMAIN ui.elements
  /\ UICall([op |-> "input", id |-> id],
            RunListeners([ui EXCEPT !.elements[id].value = toString(value)],
                         ui.elements[id].listeners, value))

SlidersNext ==
  \/ \E callback \in BOOLEAN : CreateSlider(callback)
  \/ CreateRotationSlider
  \/ CreateStarSizeSlider
  \/ \E id \in {"fog-height-slider", "rotation-slider", "star-max-size-slider"} :
       \/ \E value \in {7, 120} : UpdateSlider(id, value)
       \/ GetSliderValue(id)
       \/ \E value \in {7, 120} : SliderInput(id, value)

SpecSliders == SlidersInit /\ [][SlidersNext]_vars

-----------------------------------------------------------------------------
(* The application and the original index.ts under the same keyboard and    *)
(* mouse events                                                             *)

Experience ==
  [state |-> experience, controls |-> controls, camera |-> camera,
   matrixWorldInverse |-> matrixWorldInverse]

(* an input event reaches the listeners of both programs *)
InputEvent(op, x, l) ==
  /\ initPc # "resume"
  /\ nEvents < MaxInputs
  /\ nEvents' = nEvents + 1
  /\ experience' = x.state
  /\ controls' = x.controls
  /\ camera' = x.camera
  /\ matrixWorldInverse' = x.matrixWorldInverse
  /\ legacy' = l
  /\ keysDown' = IF op.op = "keydown" THEN keysDown \cup ({op.key} \cap {"e", "q"})
                 ELSE IF op.op = "keyup" THEN keysDown \ {op.key}
                 ELSE keysDown
  /\ lastOp' = op
  /\ UNCHANGED <<objects, materials, scene, foggyMaterials, parameters, globalPlane,
                 fogPlane, skyUniforms, distantMountains, groundPlane, sliders, balloon,
                 isLoading, loadsStarted, loadsSettled, initPc, errorReported, animateStarted,
                 framesRendered>>
  /\ UNCHANGED <<generatorVars, fragment, ui, starCall, managerTerrain, updateCall,
                 heightmaps>>

MouseDown ==
  InputEvent([op |-> "mousedown"], handleMouseDown(Experience), legacyMouseDown(legacy))

KeyDown(key) ==
  InputEvent([op |-> "keydown", key |-> key], handleKeyDown(Experience, key),
             legacyKeyDown(legacy, key))

KeyUp(key) ==
  InputEvent([op |-> "keyup", key |-> key], handleKeyUp(Experience, key),
             legacyKeyUp(legacy, key))

(* the star-fade slider's callback: StarSystem.updateStarFadeOffset, with   *)
(* the offset in tenths                                                     *)
UpdateStarFadeOffset(fadeOffset) ==
  /\ initPc # "resume"
  /\ nEvents < MaxEvents
  /\ nEvents' = nEvents + 1
  /\ materials' = updateStarOpacity(World).materials
  /\ lastOp' = [op |-> "updateStarFadeOffset", fadeOffset |-> fadeOffset]
  /\ UNCHANGED generatorVars
  /\ UNCHANGED auxVars
  /\ UNCHANGED <<objects, scene, foggyMaterials, parameters, globalPlane, fogPlane,
                 camera, matrixWorldInverse, skyUniforms, distantMountains, groundPlane,
                 sliders, balloon, isLoading, loadsStarted, loadsSettled, initPc,
                 errorReported, animateStarted, framesRendered>>

ExperienceNext ==
  \/ \E shot \in Shots : Frame(shot.pose, shot.view)
  \/ LoadSuccess
  \/ LoadError
  \/ \E shot \in Shots : InitializeResume(shot.pose, shot.view)
  \/ MouseDown
  \/ \E key \in {"Escape", " ", "h", "e", "q"} : KeyDown(key)
  \/ \E key \in {"e", "q"} : KeyUp(key)
  \/ UpdateStarFadeOffset(1)

SpecExperience == Init /\ [][ExperienceNext]_vars

-----------------------------------------------------------------------------
(* The opacity of one star.  Heights and offsets are in tenths. *)

(* createStars' loop body or updateStarOpacity's visit of one star *)
SetStarOpacity(op, starY, fadeOffset) ==
  /\ starCall' = [op |-> op, starY |-> starY, fadeOffset |-> fadeOffset,
                  opacity |-> starOpacity(starY, fadeOffset)]
  /\ lastOp' = [op |-> op]
  /\ UNCHANGED <<worldVars, generatorVars, fragment, ui, experienceVars, updateCall,
                 heightmaps>>

StarsNext ==
  \/ \E starY \in -MaxCoord..MaxCoord, fadeOffset \in {-10, -1, 0, 1, 5, 10} :
       SetStarOpacity("createStars", starY, fadeOffset)
  \/ \E starY \in -MaxCoord..MaxCoord, fadeOffset \in {-10, -1, 0, 1, 5, 10} :
       SetStarOpacity("updateStarOpacity", starY, fadeOffset)

SpecStars == Init /\ [][StarsNext]_vars

-----------------------------------------------------------------------------
(* One ExperienceManager.update call.  Heights are in thousandths. *)

(* the flags update reads: running with each combination of the two        *)
(* movement flags, and inactive or paused while ascending                   *)
UpdateStates ==
  {state \in [isActive : BOOLEAN, isPaused : BOOLEAN, isAscending : BOOLEAN,
              isDescending : BOOLEAN, debugUIVisible : {FALSE}] :
     \/ state.isActive /\ ~state.isPaused
     \/ state.isAscending /\ ~state.isDescending}

(* camera heights below the ground, near the floor and around the cap, over *)
(* the default height and over a patch at height 10                         *)
UpdateHeights ==
  {base + offset : base \in {DebugDefaultHeight * 1000, 10000},
                   offset \in {-1000, HeightMin * 1000 + 10, MaxElevation * 1000 - 10,
                               MaxElevation * 1000 + 10}}

UpdateCamera(state, terrain, y, ground) ==
  /\ updateCall' = [op |-> "update", state |-> state, terrain |-> terrain, y |-> y,
                    ground |-> ground, result |-> update(state, terrain, y, ground)]
  /\ lastOp' = [op |-> "update"]
  /\ UNCHANGED <<worldVars, generatorVars, fragment, ui, experienceVars, starCall,
                 heightmaps>>

UpdateNext ==
  \E state \in UpdateStates, terrain \in {0, terrainMesh}, y \in UpdateHeights,
     ground \in {<<>>, <<10000>>} :
    UpdateCamera(state, terrain, y, ground)

SpecUpdate == Init /\ [][UpdateNext]_vars

-----------------------------------------------------------------------------
(* Properties of the mountain ring and the fog registry *)

RingTags == {"mountain", "groundPlane"}

(* the ring and ground plane the application holds now *)
CurrentRing(mountains, ground) == Range(mountains) \cup ({ground} \ {0})

Retired(objs, mountains, ground) ==
  {id \in DOMAIN objs : objs[id].tag \in RingTags /\ id \notin CurrentRing(mountains, ground)}

(* C1: every recreateMountains call leaves in the scene no mesh of a ring   *)
(* or ground plane generated earlier, leaves each of those meshes with its *)
(* geometry and its material disposed, and leaves the scene with the       *)
(* children it had, less the old ring and ground plane, plus               *)
(* max(count, 16) new segments and one new ground plane.                   *)
C1_RecreateMountainsReplacesRing ==
  [][lastOp'.op = "recreateMountains" =>
       /\ CurrentRing(distantMountains, groundPlane)
            \subseteq Retired(objects', distantMountains', groundPlane')
       /\ \A id \in Retired(objects', distantMountains', groundPlane') :
            /\ id \notin Range(scene')
            /\ objects'[id].geomDisposed
            /\ materials'[objects'[id].material].disposed
       /\ Len(scene') = Len(scene)
                        - Cardinality(CurrentRing(distantMountains, groundPlane))
                        + Max(sliders'["mountain-count-slider"], 16) + 1
       /\ Len(distantMountains') = Max(sliders'["mountain-count-slider"], 16)
       /\ CurrentRing(distantMountains', groundPlane') \subseteq Range(scene')
  ]_vars

(* a second regeneration has just run: two rings and two ground planes are *)
(* retired, and the count slider asked for 5 segments                      *)
C1_Witness ==
  /\ lastOp.op = "recreateMountains"
  /\ Cardinality({id \in DOMAIN objects : objects[id].tag = "groundPlane"}) = 3
  /\ Len(distantMountains) = 16
  /\ sliders["mountain-count-slider"] = 5

(* C2: no entry of foggyMaterials is for a disposed material, and the      *)
(* registry holds no more entries than there are live fogged materials:    *)
(* regenerating the ring replaces the old ring's entries.                  *)
C2_RegistryHoldsNoDisposedMaterial ==
  /\ \A i \in DOMAIN foggyMaterials : ~materials[foggyMaterials[i]].disposed
  /\ Len(foggyMaterials)
       <= Cardinality({m \in DOMAIN materials :
                         materials[m].fogAware /\ ~materials[m].disposed})

-----------------------------------------------------------------------------
(* Properties of the balloon load and the render loop *)

(* BalloonSystem.isLoaded() *)
isLoaded == balloon # 0

(* C3: once the balloon load has failed and been reported, the render loop *)
(* runs, isLoaded() is false, and no second load has been started.         *)
C3_LoadFailureLeavesLoopRunning ==
  errorReported =>
    /\ animateStarted
    /\ ~isLoaded
    /\ loadsStarted = 1

(* C4: the render loop runs whether or not the balloon load has completed: *)
(* while the load is still in flight the loop has already been started.    *)
C4_LoopRunsWhileLoading == isLoading => animateStarted

-----------------------------------------------------------------------------
(* Properties of updateParameters *)

FogFields ==
  {"depth", "startDistance", "endDistance", "height", "closeHue", "distantHue",
   "closeBrightness", "distantBrightness", "colorStartDistance", "colorEndDistance"}

(* the values the seven fog uniforms take for the parameters params *)
DerivedUniforms(params) ==
  [fDepth |-> params.depth,
   fStartDistance |-> params.startDistance,
   fEndDistance |-> params.endDistance,
   fColorStartDistance |-> params.colorStartDistance,
   fColorEndDistance |-> params.colorEndDistance,
   fColor |-> hslToRgb(params.closeHue, 80, params.closeBrightness),
   fColorDistant |-> hslToRgb(params.distantHue, 80, params.distantBrightness)]

(* the uniforms of material mat hold the values derived *)
HoldsUniforms(mat, derived) ==
  /\ mat.uniforms # <<>>
  /\ \A f \in DOMAIN derived : mat.uniforms[1][f] = derived[f]

(* C5: after updateParameters(patch) the parameters are the former ones    *)
(* overridden by the fields of patch; every registered material's seven    *)
(* fog uniforms hold the values derived from them and the material has     *)
(* been marked needsUpdate; no material was created and no object was      *)
(* given another material.                                                 *)
C5_UpdateParametersRefreshesRegistered ==
  [][lastOp'.op = "updateParameters" =>
       /\ DOMAIN parameters' = FogFields
       /\ \A k \in FogFields :
            parameters'[k] = IF k \in DOMAIN lastOp'.patch THEN lastOp'.patch[k]
                             ELSE parameters[k]
       /\ LET derived == DerivedUniforms(parameters')
          IN  \A i \in DOMAIN foggyMaterials' :
                /\ HoldsUniforms(materials'[foggyMaterials'[i]], derived)
                /\ materials'[foggyMaterials'[i]].version
                     > materials[foggyMaterials'[i]].version
       /\ Len(materials') = Len(materials)
       /\ objects' = objects
       /\ foggyMaterials' = foggyMaterials
  ]_vars

(* an update of several fields has just run over a non-empty registry *)
C5_Witness ==
  /\ lastOp.op = "updateParameters"
  /\ lastOp.patch = [depth |-> 90, closeHue |-> 330, closeBrightness |-> 20,
                     distantHue |-> 90]
  /\ Len(foggyMaterials) > 20
  /\ parameters.distantHue = 90
  /\ parameters.endDistance = FogDefaultEndDistance

IdentityInverse == [rot5 |-> RotMatrix5("identity"), trans5 |-> <<0, 0, 0>>]

(* C6: updateParameters with height = h leaves the world-space plane       *)
(* constant equal to h and to parameters.height; each updateFogPlane       *)
(* computes the view-space plane from the constant as it then stands, and  *)
(* for a camera whose matrixWorldInverse is the identity the plane is      *)
(* (0, -1, 0, h).                                                          *)
C6_HeightReachesFogPlane ==
  [][/\ (lastOp'.op = "updateParameters" /\ "height" \in DOMAIN lastOp'.patch) =>
          /\ globalPlane'.constant = lastOp'.patch.height
          /\ parameters'.height = lastOp'.patch.height
     /\ (lastOp'.op \in {"animate", "initialize"} /\ matrixWorldInverse = IdentityInverse) =>
          fogPlane' = <<0, -5, 0, globalPlane.constant>>
     /\ globalPlane'.constant = parameters'.height
  ]_vars

(* a frame has just computed the fog plane for an identity camera after    *)
(* the height was set to 50                                                *)
C6_Witness ==
  /\ lastOp.op = "animate"
  /\ parameters.height = 50
  /\ fogPlane = <<0, -5, 0, 50>>

Registered == Range(foggyMaterials)

(* C7: updateParameters leaves every material that is not in the registry  *)
(* exactly as it was, uniforms included, and brings the uniforms of every  *)
(* registered material to the values derived from the new parameters.      *)
C7_UnregisteredMaterialsUntouched ==
  [][lastOp'.op = "updateParameters" =>
       LET derived == DerivedUniforms(parameters')
           registered == Registered
       IN  \A m \in DOMAIN materials :
             IF m \in registered
             THEN HoldsUniforms(materials'[m], derived)
             ELSE materials'[m] = materials[m]
  ]_vars

(* an update has just run while a fogged material with compiled uniforms   *)
(* was out of the registry, another fogged material had not been compiled  *)
(* yet, and a third was registered                                         *)
C7_Witness ==
  /\ lastOp.op = "updateParameters"
  /\ lastOp.patch # <<>>
  /\ \E m \in DOMAIN materials :
       materials[m].fogAware /\ materials[m].uniforms # <<>> /\ m \notin Registered
  /\ \E m \in DOMAIN materials :
       materials[m].fogAware /\ materials[m].uniforms = <<>> /\ ~materials[m].disposed
  /\ Registered # {}

-----------------------------------------------------------------------------
(* Properties of the terrain mesh *)

(* the six indices of the quad at column x of row z, as the index buffer   *)
(* idx of a grid of the given width holds them                             *)
QuadAt(idx, x, z, width) ==
  LET q == x + z * (width - 1)
  IN  <<idx[6 * q + 1], idx[6 * q + 2], idx[6 * q + 3],
        idx[6 * q + 4], idx[6 * q + 5], idx[6 * q + 6]>>

(* C8: a terrain built for width >= 2 and depth >= 2 has width * depth     *)
(* vertices and 2 * (width - 1) * (depth - 1) triangles; the quad at       *)
(* (x, z) is the triangles (a, b, d) and (d, c, a) with a = x + z * width, *)
(* b = a + 1, c = a + width, d = c + 1, all of them below width * depth;   *)
(* the 64 x 64 terrain has 4096 vertices and 7938 triangles.               *)
C8_TerrainMeshCounts ==
  LET width == terrainGeometry.width
      depth == terrainGeometry.depth
      idx == TerrainIndices(width, depth)
  IN  (width >= 2 /\ depth >= 2) =>
        /\ terrainGeometry.vertexCount = width * depth
        /\ Len(TerrainVertices(width, depth)) = width * depth
        /\ terrainGeometry.indexCount = 3 * (2 * (width - 1) * (depth - 1))
        /\ Len(idx) = terrainGeometry.indexCount
        /\ \A z \in 0..(depth - 2), x \in 0..(width - 2) :
             LET a == x + z * width
             IN  /\ QuadAt(idx, x, z, width)
                      = <<a, a + 1, a + width + 1, a + width + 1, a + width, a>>
                 /\ a >= 0
                 /\ a + width + 1 < width * depth
        /\ (width = 64 /\ depth = 64) =>
             /\ terrainGeometry.vertexCount = 4096
             /\ terrainGeometry.indexCount = 3 * 7938

(* a terrain that is not square has just been built *)
C8_Witness ==
  /\ lastOp.op = "createProceduralTerrain"
  /\ terrainGeometry.width = 3
  /\ terrainGeometry.depth = 4
  /\ terrainGeometry.vertexCount = 12
  /\ terrainGeometry.indexCount = 36

(* C9: a terrain built for width < 2 or depth < 2 has an empty index       *)
(* buffer, and the call returned: its mesh is the generator's terrain mesh *)
(* and is in the scene.                                                    *)
C9_DegenerateGridHasNoTriangles ==
  (terrainGeometry.width < 2 \/ terrainGeometry.depth < 2) =>
    /\ terrainGeometry.indexCount = 0
    /\ Len(TerrainIndices(terrainGeometry.width, terrainGeometry.depth)) = 0
    /\ terrainGeometry.vertexCount
         = Max(terrainGeometry.width, 0) * Max(terrainGeometry.depth, 0)
    /\ lastOp.op = "createProceduralTerrain" =>
         /\ terrainMesh \in Range(scene)
         /\ objects[terrainMesh].tag = "terrain"

(* a terrain of width 0 has just been built *)
C9_Witness ==
  /\ lastOp.op = "createProceduralTerrain"
  /\ terrainGeometry.width = 0
  /\ terrainGeometry.depth = 3
  /\ terrainGeometry.vertexCount = 0
  /\ terrainMesh \in Range(scene)

-----------------------------------------------------------------------------
(* Properties of the noise functions *)

(* C10: a call of the terrain noise or of the mountain noise returns a     *)
(* value in [0, 1], and the same call made again returns the same value.   *)
C10_NoiseIsPureAndBounded ==
  noiseCall.calls > 0 =>
    /\ 0 <= noiseCall.value.num
    /\ noiseCall.value.num <= noiseCall.value.den
    /\ noiseCall.calls = 2 => noiseCall.value = noiseCall.previous

(* C11: every vertex height of a terrain patch is noise(x, z) * maxHeight  *)
(* for the loop counters (x, z) the vertex was pushed for, and lies within *)
(* [0, maxHeight]; so does the y range of the geometry's bounding box; the *)
(* 64 x 64 patch with maxHeight 20 has all its heights within [0, 20].     *)
C11_TerrainHeightsWithinRange ==
  LET g == terrainGeometry
      heights == TerrainHeights(g.width, g.depth, g.maxHeight, g.noiseScale)
  IN  /\ Len(heights) = g.vertexCount
      /\ \A k \in DOMAIN heights :
           LET x == (k - 1) \div g.width
               z == (k - 1) % g.width
               n == noise(x, z, g.noiseScale)
           IN  /\ x < g.depth
               /\ heights[k].base = g.maxHeight
               /\ heights[k].dev = g.maxHeight * (n.num - n.den \div 2)
               /\ HeightAtLeast(heights[k], 0)
               /\ HeightAtMost(heights[k], g.maxHeight)
      /\ g.boundingBoxY # <<>> =>
           /\ HeightAtLeast(g.boundingBoxY[1], 0)
           /\ HeightAtMost(g.boundingBoxY[2], g.maxHeight)
           /\ (g.width = 64 /\ g.depth = 64 /\ g.maxHeight = 20) =>
                HeightAtMost(g.boundingBoxY[2], 20)

(* a patch that is not square has just been built with maxHeight 7, and    *)
(* its heights are not all the same                                        *)
C11_Witness ==
  /\ lastOp.op = "createProceduralTerrain"
  /\ terrainGeometry.width = 3
  /\ terrainGeometry.depth = 4
  /\ terrainGeometry.maxHeight = 7
  /\ terrainGeometry.noiseScale = 3
  /\ terrainGeometry.boundingBoxY # <<>>
  /\ terrainGeometry.boundingBoxY[1].dev < terrainGeometry.boundingBoxY[2].dev

-----------------------------------------------------------------------------
(* Properties of the mountain ring as createDistantMountains returns it *)

(* C12: the ring the application holds, which is what the last             *)
(* createDistantMountains(count) returned, has exactly max(count, 16)      *)
(* segments, never fewer than count, all of them different meshes in the   *)
(* scene, and comes with one ground plane, the only one in the scene; a    *)
(* count of 5 gives 16 segments.                                           *)
C12_RingHasMaxOfCountAndSixteen ==
  LET count == sliders["mountain-count-slider"]
  IN  /\ Len(distantMountains) = Max(count, 16)
      /\ Len(distantMountains) >= count
      /\ count = 5 => Len(distantMountains) = 16
      /\ Cardinality(Range(distantMountains)) = Len(distantMountains)
      /\ \A i \in DOMAIN distantMountains :
           /\ distantMountains[i] \in Range(scene)
           /\ objects[distantMountains[i]].tag = "mountain"
      /\ {id \in Range(scene) : objects[id].tag = "mountain"} = Range(distantMountains)
      /\ {id \in Range(scene) : objects[id].tag = "groundPlane"} = {groundPlane}

(* the ring has been regenerated for 5 segments and then once more after   *)
(* the height slider moved                                                 *)
C12_Witness ==
  /\ lastOp.op = "recreateMountains"
  /\ sliders["mountain-count-slider"] = 5
  /\ sliders["mountain-height-slider"] = 200
  /\ Len(distantMountains) = 16
  /\ Cardinality({id \in DOMAIN objects : objects[id].tag = "mountain"}) > 42

-----------------------------------------------------------------------------
(* Properties of the fragment shaders *)

-----------------------------------------------------------------------------
(* Properties of the material recreation *)

FoggedMeshes ==
  {id \in Descendants(objects, scene) :
     /\ objects[id].kind = "Mesh"
     /\ objects[id].material # 0
     /\ materials[objects[id].material].fogAware}

(* C14: recreateAllFoggyMaterials gives every mesh of the scene that       *)
(* carried a fog-aware material a material created by the call (one that   *)
(* did not exist before, its own), fog-aware again, with the colour, side, *)
(* transparent, opacity, wireframe and vertexColors of the old one.        *)
C14_RecreateKeepsMaterialProperties ==
  [][lastOp'.op = "recreateAllFoggyMaterials" =>
       LET fogged == FoggedMeshes
       IN  /\ Cardinality({objects'[id].material : id \in fogged}) = Cardinality(fogged)
           /\ \A id \in fogged :
               LET old == materials[objects[id].material]
                   new == materials'[objects'[id].material]
               IN  /\ objects'[id].material > Len(materials)
                   /\ objects'[id].material <= Len(materials')
                   /\ new.fogAware
                   /\ ~new.disposed
                   /\ new.color = old.color
                   /\ new.side = old.side
                   /\ new.transparent = old.transparent
                   /\ new.opacity = old.opacity
                   /\ new.wireframe = old.wireframe
                   /\ new.vertexColors = old.vertexColors]_vars

(* a recreation has replaced the materials of fogged meshes, among them    *)
(* one with vertexColors and one with wireframe                            *)
C14_Witness ==
  /\ lastOp.op = "recreateAllFoggyMaterials"
  /\ \E id \in FoggedMeshes : materials[objects[id].material].vertexColors
  /\ \E id \in FoggedMeshes : materials[objects[id].material].wireframe
  /\ \E id \in FoggedMeshes : materials[objects[id].material].side = "DoubleSide"
  /\ \E id \in FoggedMeshes : materials[objects[id].material].side = "FrontSide"

(* C15: the colour the sky shader writes for a fragment is the mix of the  *)
(* ring colour and the sky colour by the ring factor, with alpha 1, and is *)
(* the same under every other value of the fog uniforms (and of whatever   *)
(* the fog terms evaluate to): no fog parameter changes it.                *)
C15_SkyColourIndependentOfFog ==
  fragment.shader = "sky" =>
    LET ring == fragment.ring
        ringFactor == smoothstep(ring.ringHeight - ring.ringFalloff, ring.ringHeight,
                                 fragment.heightFactor)
    IN  /\ fragment.alpha = 1
        /\ fragment.color = mix(ring.ringColor, ring.skyColor, ringFactor)
        /\ \A fog \in FogSamples, undef \in UndefinedValues :
             skyFragment(fragment.heightFactor, ring, fog, fragment.viewDistance,
                         fragment.planeDistance, undef)
               = [color |-> fragment.color, alpha |-> fragment.alpha]

(* a sky fragment inside the ring's falloff has been shaded while the fog  *)
(* term of its fog uniforms was not zero                                   *)
C15_Witness ==
  /\ fragment.shader = "sky"
  /\ fragment.heightFactor = 30
  /\ fragment.ring.ringHeight = SkyRingDefaultHeight
  /\ fragment.color = mix(fragment.ring.ringColor, fragment.ring.skyColor,
                          [num |-> 1849 * 64, den |-> 125000])
  /\ fragment.fog.fogStartDistance < fragment.viewDistance
  /\ fragment.viewDistance < fragment.fog.fogEndDistance
  /\ skyTotalFog(fragment.fog, fragment.viewDistance, fragment.planeDistance,
                 fragment.undef).num > 0

-----------------------------------------------------------------------------
(* Properties of the sky's fog uniforms *)

(* C16: when a frame has just run SkySystem.updateFogUniforms, every fog   *)
(* uniform of the sky material equals the value FogSystem derives from the *)
(* same parameters for the ground materials: depth, start and end          *)
(* distance, colour start and end distance, the close colour, and the      *)
(* distant colour derived from distantHue and distantBrightness.           *)
C16_SkyFogUniformsMatchGround ==
  lastOp.op \in {"animate", "initialize"} =>
    LET ground == DerivedUniforms(parameters)
    IN  /\ skyUniforms.fogDepth = ground.fDepth
        /\ skyUniforms.fogStartDistance = ground.fStartDistance
        /\ skyUniforms.fogEndDistance = ground.fEndDistance
        /\ skyUniforms.fogColorStartDistance = ground.fColorStartDistance
        /\ skyUniforms.fogColorEndDistance = ground.fColorEndDistance
        /\ skyUniforms.fogColor = ground.fColor
        /\ skyUniforms.fogColorDistant = ground.fColorDistant

-----------------------------------------------------------------------------
(* Properties of UIControls *)

(* the elements a creation call of lastOp' looks up *)
Needed(op) ==
  CASE op = "createSlider" -> {SliderConfigs.fogHeight.id, SliderConfigs.fogHeight.valueId}
    [] op = "createRotationSlider" ->
         {SliderConfigs.rotation.id, SliderConfigs.rotation.valueId, "rotation-degrees"}
    [] op = "createStarSizeSlider" ->
         {SliderConfigs.starMin.id, SliderConfigs.starMin.valueId, SliderConfigs.starMax.id, SliderConfigs.starMax.valueId}
    [] OTHER -> {}

(* C17: when an element it looks up is missing from the page, createSlider, *)
(* createRotationSlider and createStarSizeSlider warn once and return:      *)
(* nothing is registered, no element is written to or given a listener and  *)
(* nothing is thrown.  updateSlider on an id that is not registered (as the *)
(* id of such a call is, unless another call registered it) changes no      *)
(* element and does not throw, and getSliderValue on it returns 0.          *)
C17_MissingElementsLeaveSliderUnregistered ==
  [][/\ ~(Needed(lastOp'.op) \subseteq DOMAIN ui.elements) =>
          /\ ui'.sliders = ui.sliders
          /\ ui'.elements = ui.elements
          /\ ui'.warnings = ui.warnings + 1
          /\ ui'.returned = Undefined
          /\ ~ui'.threw
     /\ (lastOp'.op = "updateSlider" /\ lastOp'.id \notin DOMAIN ui.sliders) =>
          /\ ui'.sliders = ui.sliders
          /\ ui'.elements = ui.elements
          /\ ui'.returned = Undefined
          /\ ~ui'.threw
     /\ (lastOp'.op = "getSliderValue" /\ lastOp'.id \notin DOMAIN ui.sliders) =>
          /\ ui'.sliders = ui.sliders
          /\ ui'.elements = ui.elements
          /\ ui'.returned = [number |-> 0]
          /\ ~ui'.threw]_vars

(* on a page that has the fog-height slider but not its value element,     *)
(* three calls have warned, the last one getSliderValue for that slider,    *)
(* and nothing is registered                                                *)
C17_Witness ==
  /\ "fog-height-slider" \in DOMAIN ui.elements
  /\ "fog-height-value" \notin DOMAIN ui.elements
  /\ lastOp = [op |-> "getSliderValue", id |-> "fog-height-slider"]
  /\ ui.calls = 3
  /\ ui.warnings = 3
  /\ ui.sliders = <<>>
  /\ ui.returned = [number |-> 0]
  /\ ui.elements["fog-height-slider"] = Element

-----------------------------------------------------------------------------
(* Properties of the render loop and the experience *)

(* C18: every frame of the loop, whether the experience is inactive,       *)
(* active or paused, recomputes the fog plane from the camera as the       *)
(* previous render left it, before it renders (the render then updates the *)
(* camera's matrices and counts the frame).                                *)
C18_EveryFrameRecomputesFogPlane ==
  [][lastOp'.op \in {"animate", "initialize"} =>
       /\ fogPlane' = updateFogPlane(globalPlane, matrixWorldInverse)
       /\ framesRendered' = framesRendered + 1
       /\ matrixWorldInverse' = InverseOfPose(camera')]_vars

(* a frame has been rendered while the experience was paused, with a fog   *)
(* plane other than the one the first frame computed                       *)
C18_Witness ==
  /\ lastOp.op = "animate"
  /\ experience.isActive
  /\ experience.isPaused
  /\ framesRendered >= 2
  /\ fogPlane # updateFogPlane(globalPlane,
                               InverseOfPose([pos |-> StartPose.pos, rot |-> "identity"]))

(* the start button's meshes that are in the application's scene *)
StartButtonInScene ==
  {objects[id].tag : id \in Range(scene)} \cap {"sceneButton", "buttonText"}

(* C20: after every sequence of canvas clicks and key presses the start    *)
(* button and its text are in the application's scene exactly when the     *)
(* experience is inactive, as in the original index.ts given the same      *)
(* events: the two agree on whether the experience is active and on which  *)
(* of the button's meshes are in the scene.                                *)
C20_StartButtonShownExactlyWhenInactive ==
  /\ experience.isActive = legacy.isExperienceActive
  /\ StartButtonInScene = legacy.inScene
  /\ StartButtonInScene =
       (IF experience.isActive THEN {} ELSE {"sceneButton", "buttonText"})

-----------------------------------------------------------------------------
(* Properties of the stars *)

(* C19: for every star height y and every fade offset f the opacity        *)
(* createStars and updateStarOpacity set is 1 when y >= f, and otherwise   *)
(* max(0, (y + f) / (2f)); it always lies within [0, 1].                   *)
C19_StarOpacityWithinUnitInterval ==
  starCall.op # "none" =>
    LET y == starCall.starY
        f == starCall.fadeOffset
        opacity == starCall.opacity
    IN  /\ y >= f => Same(opacity, [num |-> 1, den |-> 1])
        /\ (y < f /\ f > 0) => Same(opacity, [num |-> Max(0, y + f), den |-> 2 * f])
        /\ LessEq(Zero, opacity)
        /\ LessEq(opacity, [num |-> 1, den |-> 1])

-----------------------------------------------------------------------------
(* Properties of the registered materials' uniforms *)

(* C21: in every state, the fog uniforms of every registered material      *)
(* (depth, start and end distance, colour start and end distance, close    *)
(* colour and distant colour) hold the values derived from the current     *)
(* parameters, from its registration at shader compilation on.             *)
C21_RegisteredUniformsDerivedFromParameters ==
  LET derived == DerivedUniforms(parameters)
  IN  \A m \in Registered : HoldsUniforms(materials[m], derived)

(* C22: once start-up has finished, the ExperienceManager holds the        *)
(* generated terrain mesh (not null), so a collision query over the patch  *)
(* answers with the patch's height and not with the default height -1000.  *)
C22_ManagerHoldsGeneratedTerrain ==
  initPc = "done" =>
    /\ managerTerrain # 0
    /\ managerTerrain = terrainMesh
    /\ checkTerrainCollision(managerTerrain, CameraDefaultHeight * 1000, <<0>>) = 0

(* C23: after any sequence of clicks, Escape presses and Space presses,    *)
(* the controls are enabled exactly when the experience is active and not  *)
(* paused: a pause does not survive a reset followed by a restart.         *)
C23_ControlsEnabledIffActiveAndNotPaused ==
  controls.enabled <=> (experience.isActive /\ ~experience.isPaused)

(* C24: after any sequence of key and click events, when neither E nor Q   *)
(* is held down, isAscending and isDescending are both false.              *)
C24_NoVerticalFlagWithoutHeldKey ==
  keysDown = {} => ~experience.isAscending /\ ~experience.isDescending

(* C25: an update while active and not paused leaves the camera at least   *)
(* heightMin above the terrain height, and an ascent step leaves it no     *)
(* higher than the larger of its old height and terrainHeight +            *)
(* maxElevation: from below the cap it ends at most at the cap.  While     *)
(* paused, update leaves the camera height as it was.                      *)
C25_UpdateKeepsCameraBetweenFloorAndCap ==
  updateCall.op = "update" =>
    LET c == updateCall
        running == c.state.isActive /\ ~c.state.isPaused
        cap == checkTerrainCollision(c.terrain, c.y, c.ground) + MaxElevation * 1000
        floor == checkTerrainCollision(c.terrain, c.result, c.ground) + HeightMin * 1000
    IN  /\ running => c.result >= floor
        /\ running /\ c.state.isAscending => c.result <= Max(c.y, cap)
        /\ running /\ c.state.isAscending /\ c.y < cap => c.result <= cap
        /\ c.state.isPaused => c.result = c.y

(* an ascent from just below the cap over the terrain patch was stopped at *)
(* the cap                                                                 *)
C25_Witness ==
  /\ updateCall.op = "update"
  /\ updateCall.state.isActive /\ ~updateCall.state.isPaused
  /\ updateCall.state.isAscending /\ ~updateCall.state.isDescending
  /\ updateCall.terrain # 0
  /\ updateCall.ground = <<10000>>
  /\ updateCall.y = 10000 + MaxElevation * 1000 - 10
  /\ updateCall.result = 10000 + MaxElevation * 1000

(* the balloon groups among the scene's children *)
BalloonsInScene == {i \in DOMAIN scene : objects[scene[i]].tag = "balloon"}

(* C26: after any sequence of loadBalloon and removeBalloon calls, at most *)
(* one balloon made by the BalloonSystem is in the scene, it is the one    *)
(* getBalloon returns, and after removeBalloon with no load in flight none *)
(* is in the scene.                                                        *)
C26_AtMostOneBalloonInScene ==
  /\ Cardinality(BalloonsInScene) <= 1
  /\ \A i \in BalloonsInScene : scene[i] = balloon
  /\ lastOp.op = "removeBalloon" /\ loadsSettled = loadsStarted => BalloonsInScene = {}

(* loads handed to the loader whose callback has not run yet *)
InFlight == loadsStarted - loadsSettled

(* C27: at most one balloon load is in flight, and isLoading is true       *)
(* exactly while one is; loadBalloon called while isLoading is true        *)
(* changes no state; every load is followed by a state in which isLoading  *)
(* is false, where a new loadBalloon is accepted.                          *)
C27_AtMostOneLoadInFlight ==
  /\ [](InFlight \in {0, 1} /\ (isLoading <=> InFlight = 1))
  /\ [][lastOp'.op = "loadBalloon" /\ isLoading
          => UNCHANGED <<worldVars, generatorVars, auxVars>>]_vars
  /\ (isLoading ~> ~isLoading)

(* loadBalloon was called while the second load was in flight *)
C27_Witness ==
  /\ lastOp = [op |-> "loadBalloon", wasLoading |-> TRUE]
  /\ isLoading
  /\ loadsStarted = 2
  /\ loadsSettled = 1

(* the materials of the meshes createStars made *)
StarMaterials == {objects[id].material : id \in {i \in DOMAIN objects : objects[i].tag = "star"}}

(* C28: updateStarFadeOffset changes the opacity only of the meshes that   *)
(* createStars made: the material of every other object, such as the       *)
(* start button's text mesh, is left as it was.                            *)
C28_StarFadeTouchesOnlyStars ==
  [][lastOp'.op = "updateStarFadeOffset" =>
       \A m \in DOMAIN materials \ StarMaterials : materials'[m] = materials[m]]_vars

(* the terrain meshes among the scene's children *)
TerrainsInScene == {i \in DOMAIN scene : objects[scene[i]].tag = "terrain"}

(* C29: after any sequence of createProceduralTerrain,                     *)
(* createTerrainFromHeightmap and removeTerrain calls the scene holds at   *)
(* most one terrain mesh, the one getTerrainMesh returns, and none after   *)
(* removeTerrain; a terrain mesh that was replaced is out of the scene and *)
(* disposed.                                                               *)
C29_AtMostOneTerrainInScene ==
  /\ Cardinality(TerrainsInScene) <= 1
  /\ \A i \in TerrainsInScene : scene[i] = terrainMesh
  /\ lastOp.op = "removeTerrain" => TerrainsInScene = {}
  /\ \A id \in DOMAIN objects :
       objects[id].tag = "terrain" /\ id # terrainMesh =>
         /\ id \notin Range(scene)
         /\ objects[id].geomDisposed
         /\ materials[objects[id].material].disposed

(* C30: for all width >= 1 and depth >= 1, every pixel index that          *)
(* createTerrainFromHeightmap reads lies inside the width x depth image    *)
(* data, so every vertex height is a defined number.                       *)
C30_HeightmapReadsInsideImage ==
  lastOp.op = "heightmapLoaded" =>
    /\ Len(heightmaps.vertices) = lastOp.width * lastOp.depth
    /\ \A k \in DOMAIN heightmaps.vertices :
         /\ heightmaps.vertices[k].pixelIndex
              < ImageDataLength(lastOp.width, lastOp.depth)
         /\ heightmaps.vertices[k].defined

====
